---- MODULE Spec2Model ----
(***************************************************************************)
(* Model of the query pipeline of the agentic e-commerce search evaluator: *)
(* llm_evaluator.py (classification, inventory parsing, inference client,  *)
(* response parser, inventory-aware reranker) and the batch loop of         *)
(* main.py, and the query executor of scraper.py.  Text is modelled as a    *)
(* sequence of one-character strings.  In ScrapeSpec the browser session   *)
(* stays alive during a call: a lookup either finds its element or fails   *)
(* with its own exception (NoSuchElementException, TimeoutException), and  *)
(* only the page load, the typing and the click may fail otherwise.        *)
(* ExtractSpec models the enumeration loop alone, with every field of a    *)
(* card and with lookups that may fail with any error.                     *)
(***************************************************************************)
EXTENDS Integers, Sequences, FiniteSets, TLC

\* ------------------------------------------------------------------------
\* Bounds of the model
\* ------------------------------------------------------------------------
MaxQtyLen == 3
MaxEvals == 3
MaxEntries == 3
MaxQueryLen == 4
MaxRetriesBound == 4
MaxTextLen == 5
MaxRecords == 2
MaxTasks == 3
MaxLocators == 3
MaxCards == 3
MaxCap == 2
MaxCardLocators == 2
MaxFieldCards == 2

\* ------------------------------------------------------------------------
\* Text helpers (str as a sequence of characters)
\* ------------------------------------------------------------------------
Digits == {"0", "1", "2", "3", "4", "5", "6", "7", "8", "9"}

DigitVal(c) ==
  CASE c = "0" -> 0 [] c = "1" -> 1 [] c = "2" -> 2 [] c = "3" -> 3
    [] c = "4" -> 4 [] c = "5" -> 5 [] c = "6" -> 6 [] c = "7" -> 7
    [] c = "8" -> 8 [] c = "9" -> 9

LowerMap ==
  [A |-> "a", B |-> "b", C |-> "c", D |-> "d", E |-> "e", F |-> "f",
   G |-> "g", H |-> "h", I |-> "i", J |-> "j", K |-> "k", L |-> "l",
   M |-> "m", N |-> "n", O |-> "o", P |-> "p", Q |-> "q", R |-> "r",
   S |-> "s", T |-> "t", U |-> "u", V |-> "v", W |-> "w", X |-> "x",
   Y |-> "y", Z |-> "z"]

\* str.lower()
Lower(s) == [i \in 1..Len(s) |-> IF s[i] \in DOMAIN LowerMap THEN LowerMap[s[i]] ELSE s[i]]

\* term in s  (substring test)
Contains(s, term) ==
  \E i \in 0..(Len(s) - Len(term)) :
     \A j \in 1..Len(term) : s[i + j] = term[j]

\* all sequences over alphabet of length at most n
SeqsUpTo(alphabet, n) == UNION {[1..k -> alphabet] : k \in 0..n}

\* ------------------------------------------------------------------------
\* parse_inventory_quantity
\* ------------------------------------------------------------------------
NAText == <<"N", "/", "A">>

\* re.search(r'(\d+)', s): start of the first digit, 0 when there is none
FirstDigitPos(s) ==
  IF \E i \in 1..Len(s) : s[i] \in Digits
  THEN CHOOSE i \in 1..Len(s) : s[i] \in Digits /\ \A j \in 1..(i - 1) : s[j] \notin Digits
  ELSE 0

\* a pattern of \d in place of \d+: the run is its first digit only
RunEndSingleDigit(s, i) == i

\* end of the maximal run of digits that starts at position i
RECURSIVE RunEnd(_, _)
RunEnd(s, i) == IF i < Len(s) /\ s[i + 1] \in Digits THEN RunEnd(s, i + 1) ELSE i

\* int(numeric_match.group(1)) for the run s[i..j]
RECURSIVE IntOfRun(_, _, _)
IntOfRun(s, i, j) == IF j < i THEN 0 ELSE 10 * IntOfRun(s, i, j - 1) + DigitVal(s[j])

LowStockThreshold == 5

KwOutOfStock == <<"o", "u", "t", " ", "o", "f", " ", "s", "t", "o", "c", "k">>
KwUnavailable == <<"u", "n", "a", "v", "a", "i", "l", "a", "b", "l", "e">>
KwZero == <<"0">>
KwLowStock == <<"l", "o", "w", " ", "s", "t", "o", "c", "k">>
KwLimited == <<"l", "i", "m", "i", "t", "e", "d">>
KwInStock == <<"i", "n", " ", "s", "t", "o", "c", "k">>
KwAvailable == <<"a", "v", "a", "i", "l", "a", "b", "l", "e">>

AvailableSentinel == 999

QtyResult(n, st) == [numeric |-> n, status |-> st]

\* the keyword tests with the in-stock terms tried before the others
KeywordStatusAvailableFirst(quantity_lower) ==
  IF \E term \in {KwInStock, KwAvailable} : Contains(quantity_lower, term)
  THEN QtyResult(AvailableSentinel, "Available")
  ELSE IF \E term \in {KwOutOfStock, KwUnavailable, KwZero} : Contains(quantity_lower, term)
  THEN QtyResult(0, "Out of Stock")
  ELSE IF \E term \in {KwLowStock, KwLimited} : Contains(quantity_lower, term)
  THEN QtyResult(1, "Low Stock")
  ELSE QtyResult(0, "Unknown")

\* the keyword tests of a string without a digit, in the order of the code
KeywordStatus(quantity_lower) ==
  IF \E term \in {KwOutOfStock, KwUnavailable, KwZero} : Contains(quantity_lower, term)
  THEN QtyResult(0, "Out of Stock")
  ELSE IF \E term \in {KwLowStock, KwLimited} : Contains(quantity_lower, term)
  THEN QtyResult(1, "Low Stock")
  ELSE IF \E term \in {KwInStock, KwAvailable} : Contains(quantity_lower, term)
  THEN QtyResult(AvailableSentinel, "Available")
  ELSE QtyResult(0, "Unknown")

parse_inventory_quantity(quantity_str) ==
  IF quantity_str = <<>> \/ quantity_str = NAText
  THEN QtyResult(0, "Unknown")
  ELSE LET p == FirstDigitPos(quantity_str) IN
       IF p # 0
       THEN LET qty == IntOfRun(quantity_str, p, RunEnd(quantity_str, p)) IN
            IF qty = 0 THEN QtyResult(0, "Out of Stock")
            ELSE IF qty < LowStockThreshold THEN QtyResult(qty, "Low Stock")
            ELSE QtyResult(qty, "Available")
       ELSE KeywordStatus(Lower(quantity_str))

\* ------------------------------------------------------------------------
\* apply_inventory_aware_ranking
\* ------------------------------------------------------------------------
\* An element of the evaluations list.  kind: "dict" for a JSON object,
\* "scalar" for anything else; idx: "int", "missing" (no result_index key) or
\* "other" (a string or null); relevance: a label, Missing (no key) or
\* Unhashable (a list or an object); pos: the identity of the element, its
\* position in the list handed to the reranker.
Missing == "<missing>"
Unhashable == "<unhashable>"
RelevanceLevels == <<"High", "Medium", "Low">>

EvalItem(kind, idx, ri, rel, pos) ==
  [kind |-> kind, idx |-> idx, result_index |-> ri, relevance |-> rel, pos |-> pos]

\* eval_item.get("relevance", "Low")
GetRelevance(eval_item) ==
  IF eval_item.relevance = Missing THEN "Low" ELSE eval_item.relevance

\* eval_item.get("result_index", 0)
GetResultIndex(eval_item) ==
  IF eval_item.idx = "missing" THEN 0 ELSE eval_item.result_index

\* original_results[result_index] with Python's negative indexing (1-based
\* position, 0 for IndexError)
PyIndex(result_index, n) ==
  IF result_index >= 0 THEN result_index + 1
  ELSE IF result_index >= -n THEN n + result_index + 1
  ELSE 0

\* the statements of one loop iteration that can raise: .get on a non-dict,
\* '<' between a non-int and an int, an index below -len
LookupRaises(eval_item, original_results) ==
  \/ eval_item.kind # "dict"
  \/ eval_item.idx = "other"
  \/ /\ eval_item.idx = "int"
     /\ PyIndex(eval_item.result_index, Len(original_results)) = 0

\* 'relevance in relevance_groups' on an unhashable value
GroupingRaises(eval_item) == eval_item.relevance = Unhashable

\* an annotation that also writes the defaulted label back into the record
AnnotateWritingRelevance(eval_item, original_results) ==
  LET result_index == GetResultIndex(eval_item)
      n == Len(original_results)
      labelled == [eval_item EXCEPT !.relevance = GetRelevance(eval_item)]
  IN  IF result_index < n
      THEN LET original_result == original_results[PyIndex(result_index, n)]
               parsed == parse_inventory_quantity(original_result.quantity)
           IN  labelled @@ [parsed_quantity |-> parsed.numeric,
                            inventory_status_parsed |-> parsed.status]
      ELSE labelled @@ [parsed_quantity |-> 0, inventory_status_parsed |-> "Unknown"]

\* lines 232-243: the two keys the loop writes into the record
Annotate(eval_item, original_results) ==
  LET result_index == GetResultIndex(eval_item)
      n == Len(original_results)
  IN  IF result_index < n
      THEN LET original_result == original_results[PyIndex(result_index, n)]
               parsed == parse_inventory_quantity(original_result.quantity)
           IN  eval_item @@ [parsed_quantity |-> parsed.numeric,
                             inventory_status_parsed |-> parsed.status]
      ELSE eval_item @@ [parsed_quantity |-> 0, inventory_status_parsed |-> "Unknown"]

\* index of the first element whose iteration raises, 0 when none does
FirstRaising(evaluations, original_results) ==
  LET bad == {i \in 1..Len(evaluations) :
                \/ LookupRaises(evaluations[i], original_results)
                \/ GroupingRaises(evaluations[i])}
  IN  IF bad = {} THEN 0 ELSE CHOOSE i \in bad : \A j \in bad : i <= j

\* an insertion that puts a record before the earlier records of equal quantity
RECURSIVE InsertDescendingUnstable(_, _)
InsertDescendingUnstable(sorted, x) ==
  IF sorted = <<>> THEN <<x>>
  ELSE IF Head(sorted).parsed_quantity > x.parsed_quantity
       THEN <<Head(sorted)>> \o InsertDescendingUnstable(Tail(sorted), x)
       ELSE <<x>> \o sorted

\* list.sort(key=parsed_quantity, reverse=True): stable, descending
RECURSIVE InsertDescending(_, _)
InsertDescending(sorted, x) ==
  IF sorted = <<>> THEN <<x>>
  ELSE IF Head(sorted).parsed_quantity >= x.parsed_quantity
       THEN <<Head(sorted)>> \o InsertDescending(Tail(sorted), x)
       ELSE <<x>> \o sorted

RECURSIVE SortPrefix(_, _)
SortPrefix(group, k) ==
  IF k = 0 THEN <<>> ELSE InsertDescending(SortPrefix(group, k - 1), group[k])

\* the sort without reverse=True
RECURSIVE InsertAscending(_, _)
InsertAscending(sorted, x) ==
  IF sorted = <<>> THEN <<x>>
  ELSE IF Head(sorted).parsed_quantity <= x.parsed_quantity
       THEN <<Head(sorted)>> \o InsertAscending(Tail(sorted), x)
       ELSE <<x>> \o sorted

RECURSIVE SortPrefixAscending(_, _)
SortPrefixAscending(group, k) ==
  IF k = 0 THEN <<>> ELSE InsertAscending(SortPrefixAscending(group, k - 1), group[k])

SortByQuantityAscending(group) == SortPrefixAscending(group, Len(group))

SortByQuantityDescending(group) == SortPrefix(group, Len(group))

\* line 245-246: the record joins the bucket of its label, if there is one
InBucket(eval_item, relevance_level) == GetRelevance(eval_item) = relevance_level

RelevanceGroup(annotated, relevance_level) ==
  LET Member(x) == InBucket(x, relevance_level)
  IN  SelectSeq(annotated, Member)

\* line 256-260
CombineGroups(high, medium, low) == high \o medium \o low

\* the list objects after the call: every element visited before the raise is
\* annotated in place
MutatedEvaluations(evaluations, original_results) ==
  LET r == FirstRaising(evaluations, original_results)
  IN  [i \in 1..Len(evaluations) |->
         IF r = 0 \/ i < r
            \/ (i = r /\ ~LookupRaises(evaluations[i], original_results))
         THEN Annotate(evaluations[i], original_results)
         ELSE evaluations[i]]

apply_inventory_aware_ranking(evaluations, original_results) ==
  IF FirstRaising(evaluations, original_results) # 0
  THEN [raised |-> TRUE, value |-> <<>>]
  ELSE LET annotated == MutatedEvaluations(evaluations, original_results)
       IN  [raised |-> FALSE,
            value |-> CombineGroups(
               SortByQuantityDescending(RelevanceGroup(annotated, "High")),
               SortByQuantityDescending(RelevanceGroup(annotated, "Medium")),
               SortByQuantityDescending(RelevanceGroup(annotated, "Low")))]

\* ------------------------------------------------------------------------
\* classify_search_type
\* ------------------------------------------------------------------------
Whitespace == {" ", "\t", "\n"}

\* re.sub(r'\s+', ' ', query): every run of whitespace becomes one space
RECURSIVE CollapseWhitespace(_)
CollapseWhitespace(s) ==
  IF s = <<>> THEN <<>>
  ELSE IF Head(s) \in Whitespace
       THEN IF Len(s) > 1 /\ s[2] \in Whitespace
            THEN CollapseWhitespace(Tail(s))
            ELSE <<" ">> \o CollapseWhitespace(Tail(s))
       ELSE <<Head(s)>> \o CollapseWhitespace(Tail(s))

\* str.strip()
RECURSIVE StripLeft(_)
StripLeft(s) == IF s # <<>> /\ Head(s) \in Whitespace THEN StripLeft(Tail(s)) ELSE s
RECURSIVE StripRight(_)
StripRight(s) ==
  IF s # <<>> /\ s[Len(s)] \in Whitespace THEN StripRight(SubSeq(s, 1, Len(s) - 1)) ELSE s
Strip(s) == StripRight(StripLeft(s))

\* str.split(): the maximal runs of non-whitespace, in order
RECURSIVE SplitFrom(_, _)
SplitFrom(s, word) ==
  IF s = <<>> THEN (IF word = <<>> THEN <<>> ELSE <<word>>)
  ELSE IF Head(s) \in Whitespace
       THEN (IF word = <<>> THEN <<>> ELSE <<word>>) \o SplitFrom(Tail(s), <<>>)
       ELSE SplitFrom(Tail(s), Append(word, Head(s)))
Split(s) == SplitFrom(s, <<>>)

\* the pattern [0-9\-/] without the slash
PartNumberCharsNoSlash == Digits \cup {"-"}

\* the character class [0-9\-/]
PartNumberChars == Digits \cup {"-", "/"}

classify_search_type(q) ==
  LET normalized_query == Strip(CollapseWhitespace(q))
      words == Split(normalized_query)
  IN  IF Len(words) > 1 THEN "multiple_terms"
      ELSE IF \E i \in 1..Len(q) : q[i] \in PartNumberChars THEN "part_number"
      ELSE "english_word"

\* ------------------------------------------------------------------------
\* Generated text
\* ------------------------------------------------------------------------
\* The generated text is a sequence of lexical tokens.  t is the kind of the
\* token: "{" "}" "[" "]" "," ; "key_eval" for the text "evaluations": ;
\* "key_eval_esc" for the same key spelled with a unicode escape
\* ("evaluatio\u006es":), which json decodes to evaluations and the pattern
\* does not see; "key" for any other key with its colon; "str_eval" for the
\* string "evaluations" used as a value; "result_index" and "relevance" for
\* the members "result_index": n and "relevance": "w"; "scalar" for any
\* other non-empty string or non-zero number; "prose" for text that is not
\* JSON and holds neither a brace nor the word "evaluations".
Tok(t) == [t |-> t, n |-> 0, w |-> ""]
TokIndex(n) == [t |-> "result_index", n |-> n, w |-> "int"]
TokIndexOther == [t |-> "result_index", n |-> 0, w |-> "other"]
TokRelevance(w) == [t |-> "relevance", n |-> 0, w |-> w]

\* ------------------------------------------------------------------------
\* query_ollama
\* ------------------------------------------------------------------------
\* range(max_retries + 1)
RetryRangeInclusive(n) == 0..n

\* range(max_retries)
RetryRange(n) == 0..(n - 1)

\* the request body, the same object for every attempt
Payload == [model |-> "gemma3", prompt |-> "prompt", stream |-> FALSE]

\* {"error": f"Failed after {max_retries} attempts"}
FailureMarker(n) == [kind |-> "error", attempts |-> n, body |-> <<>>]
\* response.json() of an answer with status 200
ResponseBody(b) == [kind |-> "response", attempts |-> 0, body |-> b]
NoResult == [kind |-> "none", attempts |-> 0, body |-> <<>>]

\* ------------------------------------------------------------------------
\* parse_enhanced_llm_response
\* ------------------------------------------------------------------------
Kinds(text) == [i \in DOMAIN text |-> text[i].t]

\* smallest element of a non-empty set of positions, 0 for the empty set
MinPos(S) == IF S = {} THEN 0 ELSE CHOOSE i \in S : \A j \in S : i <= j

\* a greedy second part of the pattern: up to the last closing brace
LastBraceAfter(text, j) ==
  LET S == {k \in DOMAIN text : k > j /\ text[k].t = "}"}
  IN  IF S = {} THEN 0 ELSE CHOOSE k \in S : \A m \in S : m <= k

\* [\s\S]*?} after the key: up to the first closing brace
FirstBraceAfter(text, j) ==
  MinPos({k \in DOMAIN text : k > j /\ text[k].t = "}"})

\* re.search(r'({[\s\S]*?"evaluations"[\s\S]*?})', text): the leftmost
\* opening brace, the first "evaluations" after it, the first closing brace
\* after that; <<0, 0>> when there is no match
JsonMatch(text) ==
  LET open == MinPos({i \in DOMAIN text : text[i].t = "{"})
      key == IF open = 0 THEN 0
             ELSE MinPos({j \in DOMAIN text :
                            j > open /\ text[j].t \in {"key_eval", "str_eval"}})
      close == IF key = 0 THEN 0 ELSE FirstBraceAfter(text, key)
  IN  IF close = 0 THEN <<0, 0>> ELSE <<open, close>>

\* re.sub(r',(\s*[}\]])', r'\1', json_str)
RECURSIVE StripTrailingCommas(_)
StripTrailingCommas(text) ==
  IF text = <<>> THEN <<>>
  ELSE IF Head(text).t = "," /\ Len(text) > 1 /\ text[2].t \in {"}", "]"}
       THEN StripTrailingCommas(Tail(text))
       ELSE <<Head(text)>> \o StripTrailingCommas(Tail(text))

\* json.loads, the grammar: the position after the value that starts at i,
\* 0 when no value starts there
RECURSIVE ValueEnd(_, _)
RECURSIVE MembersEnd(_, _)
RECURSIVE ElementsEnd(_, _)
ValueEnd(text, i) ==
  IF i > Len(text) THEN 0
  ELSE IF text[i].t \in {"scalar", "str_eval"} THEN i + 1
  ELSE IF text[i].t = "{"
       THEN IF i < Len(text) /\ text[i + 1].t = "}" THEN i + 2 ELSE MembersEnd(text, i + 1)
  ELSE IF text[i].t = "["
       THEN IF i < Len(text) /\ text[i + 1].t = "]" THEN i + 2 ELSE ElementsEnd(text, i + 1)
  ELSE 0

\* the position after the member that starts at i
MemberEnd(text, i) ==
  IF i > Len(text) THEN 0
  ELSE IF text[i].t \in {"result_index", "relevance"} THEN i + 1
  ELSE IF text[i].t \in {"key_eval", "key_eval_esc", "key"} THEN ValueEnd(text, i + 1)
  ELSE 0

\* the position after the closing brace of the object whose member starts at i
MembersEnd(text, i) ==
  LET e == MemberEnd(text, i)
  IN  IF e = 0 \/ e > Len(text) THEN 0
      ELSE IF text[e].t = "}" THEN e + 1
      ELSE IF text[e].t = "," THEN MembersEnd(text, e + 1)
      ELSE 0

\* the position after the closing bracket of the array whose element starts at i
ElementsEnd(text, i) ==
  LET e == ValueEnd(text, i)
  IN  IF e = 0 \/ e > Len(text) THEN 0
      ELSE IF text[e].t = "]" THEN e + 1
      ELSE IF text[e].t = "," THEN ElementsEnd(text, e + 1)
      ELSE 0

\* a decoder that accepts a value followed by more text
IsJsonPrefix(text) == text # <<>> /\ ValueEnd(text, 1) # 0

\* json.loads accepts the text: exactly one value
IsJson(text) == text # <<>> /\ ValueEnd(text, 1) = Len(text) + 1

\* start positions of the members of the object opened at position open - 1
RECURSIVE MemberStarts(_, _)
MemberStarts(text, i) ==
  IF text[i].t = "}" THEN <<>>
  ELSE LET e == MemberEnd(text, i)
       IN  IF text[e].t = "," THEN <<i>> \o MemberStarts(text, e + 1) ELSE <<i>>

\* start positions of the elements of the array whose first element is at i
RECURSIVE ElementStarts(_, _)
ElementStarts(text, i) ==
  IF text[i].t = "]" THEN <<>>
  ELSE LET e == ValueEnd(text, i)
       IN  IF text[e].t = "," THEN <<i>> \o ElementStarts(text, e + 1) ELSE <<i>>

\* the element of the evaluations array that starts at i, as the reranker
\* sees it: an object is a dict, with the last result_index and relevance
\* members it holds; anything else is not a dict
ElementAsItem(text, i, pos) ==
  IF text[i].t # "{" THEN EvalItem("scalar", "missing", 0, Missing, pos)
  ELSE LET ms == MemberStarts(text, i + 1)
           ris == {k \in DOMAIN ms : text[ms[k]].t = "result_index"}
           rels == {k \in DOMAIN ms : text[ms[k]].t = "relevance"}
           ri == IF ris = {} THEN 0 ELSE ms[CHOOSE k \in ris : \A m \in ris : m <= k]
           rel == IF rels = {} THEN 0 ELSE ms[CHOOSE k \in rels : \A m \in rels : m <= k]
       IN  EvalItem("dict",
                    IF ri = 0 THEN "missing" ELSE text[ri].w,
                    IF ri = 0 THEN 0 ELSE text[ri].n,
                    IF rel = 0 THEN Missing ELSE text[rel].w,
                    pos)

\* parsed.get("evaluations", []) of the object the text denotes: the value of
\* the last member with that key.  kind "list" with the elements, or
\* "other" for a value that is not a list (an empty object counts as an
\* empty list: it is falsy, has length 0 and no element to iterate)
EvaluationsOf(text) ==
  LET ms == MemberStarts(text, 2)
      keys == {k \in DOMAIN ms : text[ms[k]].t \in {"key_eval", "key_eval_esc"}}
  IN  IF keys = {} THEN [kind |-> "list", items |-> <<>>]
      ELSE LET v == ms[CHOOSE k \in keys : \A m \in keys : m <= k] + 1
           IN  IF text[v].t = "{" /\ text[v + 1].t = "}"
               THEN [kind |-> "list", items |-> <<>>]
               ELSE IF text[v].t # "[" THEN [kind |-> "other", items |-> <<>>]
               ELSE LET es == ElementStarts(text, v + 1)
                    IN  [kind |-> "list",
                         items |-> [k \in DOMAIN es |-> ElementAsItem(text, es[k], k)]]

\* a parser that hands back an empty payload where the code hands back None
NoEvaluationAsEmpty == [parsed |-> TRUE, kind |-> "list", items |-> <<>>]

ParserNotCalled == [parsed |-> FALSE, kind |-> "<not called>", items |-> <<>>]

\* return None (lines 316, 334, 339, 342)
NoEvaluation == [parsed |-> FALSE, kind |-> "none", items |-> <<>>]

\* response: the value query_ollama returned
parse_enhanced_llm_response(response) ==
  IF response.kind = "error" THEN NoEvaluation
  ELSE LET generated_text == response.body
           json_match == JsonMatch(generated_text)
       IN  IF json_match = <<0, 0>> THEN NoEvaluation
           ELSE LET json_str == StripTrailingCommas(
                                   SubSeq(generated_text, json_match[1], json_match[2]))
                IN  IF IsJson(json_str)
                    THEN [parsed |-> TRUE] @@ EvaluationsOf(json_str)
                    ELSE NoEvaluation

\* ------------------------------------------------------------------------
\* evaluate_search_results_with_inventory
\* ------------------------------------------------------------------------
\* kind is "list", or "other" when "evaluations" holds a value that is not a
\* list
EvaluationResult(status, error, kind, evals, applied) ==
  [status |-> status, error |-> error, kind |-> kind, evaluations |-> evals,
   inventory_aware_ranking_applied |-> applied]

Raised == EvaluationResult("<raised>", "", "list", <<>>, FALSE)
NotEvaluated == EvaluationResult("<not called>", "", "list", <<>>, FALSE)

\* lines 386-414, given the value query_ollama returned.  A matched object is
\* never empty, so "if parsed_evaluations" holds whenever the parse succeeded;
\* a truthy value that is not a list makes the reranker raise on its first
\* element
evaluate_search_results_with_inventory(llm_response, results, apply_post_ranking) ==
  LET parsed_evaluations == parse_enhanced_llm_response(llm_response)
  IN  IF parsed_evaluations.parsed
      THEN IF apply_post_ranking /\ parsed_evaluations.kind = "other"
           THEN Raised
           ELSE IF apply_post_ranking /\ parsed_evaluations.items # <<>>
           THEN LET r == apply_inventory_aware_ranking(parsed_evaluations.items, results)
                IN  IF r.raised THEN Raised
                    ELSE EvaluationResult("success", "", "list", r.value, apply_post_ranking)
           ELSE EvaluationResult("success", "", parsed_evaluations.kind,
                                 parsed_evaluations.items, apply_post_ranking)
      ELSE EvaluationResult("error", "Failed to parse LLM response", "list", <<>>, FALSE)

\* ------------------------------------------------------------------------
\* find_element_with_multiple_selectors
\* ------------------------------------------------------------------------
\* What the page holds for one selector: the outcome of the wait for
\* presence and of the wait for clickability, each "found", "timeout"
\* (TimeoutException) or "error" (any other exception, e.g. an invalid
\* selector)
Selector(present, clickable) == [present |-> present, clickable |-> clickable]

\* the selectors argument: one string or a list of strings
SelectorArg(kind, items) == [kind |-> kind, items |-> items]

\* lines 227-228: a single string becomes a list of one selector
AsList(selectors_arg) == selectors_arg.items

\* lines 232-239: the wait the flag selects
WaitOutcome(selector, interactable) ==
  IF interactable THEN selector.clickable ELSE selector.present

\* element 0 stands for None; tried lists the selectors waited for, in order
FindResult(element, tried) == [element |-> element, tried |-> tried]
FindNotCalled == FindResult(-1, <<>>)

\* handlers that go on to the next selector after a timeout only
HandlerContinuesAfterTimeoutOnly(outcome) == outcome = "timeout"

\* lines 242-246: both handlers go on to the next selector
HandlerContinues(outcome) == outcome \in {"timeout", "error"}

\* lines 230-247: the loop from selector i on
RECURSIVE FindFrom(_, _, _, _)
FindFrom(list, i, interactable, tried) ==
  IF i > Len(list) THEN FindResult(0, tried)
  ELSE IF WaitOutcome(list[i], interactable) = "found" THEN FindResult(i, Append(tried, i))
  ELSE IF HandlerContinues(WaitOutcome(list[i], interactable))
       THEN FindFrom(list, i + 1, interactable, Append(tried, i))
       ELSE FindResult(0, Append(tried, i))

find_element_with_multiple_selectors(selectors_arg, interactable) ==
  FindFrom(AsList(selectors_arg), 1, interactable, <<>>)

\* ------------------------------------------------------------------------
\* check_for_no_results_with_config
\* ------------------------------------------------------------------------
\* What the page holds for one no-results locator.  found: "absent" when
\* find_element raises NoSuchElementException, "hidden" when the element is
\* not displayed, "visible" otherwise; text is the element's text.
IndicatorElement(found, text) == [found |-> found, text |-> text]

\* the string indicators of lines 120-124
NoResultsPhrases ==
  {<<"0", " ", "r", "e", "s", "u", "l", "t", "s">>,
   <<"n", "o", " ", "r", "e", "s", "u", "l", "t", "s">>,
   <<"r", "e", "t", "u", "r", "n", "e", "d", " ", "0", " ", "r", "e", "s", "u", "l", "t", "s">>,
   <<"n", "o", " ", "i", "t", "e", "m", "s", " ", "f", "o", "u", "n", "d">>,
   <<"n", "o", " ", "p", "r", "o", "d", "u", "c", "t", "s", " ", "f", "o", "u", "n", "d">>}

\* line 125: the last entry of the list is the value of
\* (f"results for ..." and "0" in element_text), that is "0" in element_text,
\* a bool
LastIndicator(element_text) == Contains(element_text, <<"0">>)

\* lines 116-131 for one element: "detected" on return True, "next" when the
\* loop goes on, "TypeError" when the bool True reaches `indicator in
\* element_text` (line 129) after no string indicator matched
ElementVerdict(el) ==
  IF el.found = "absent" THEN "next"
  ELSE IF el.found = "hidden" THEN "next"
  ELSE IF \E p \in NoResultsPhrases : Contains(Lower(el.text), p) THEN "detected"
  ELSE IF LastIndicator(Lower(el.text)) THEN "TypeError"
  ELSE "next"

\* the loop of lines 113-136 from locator i on
RECURSIVE CheckFrom(_, _)
CheckFrom(els, i) ==
  IF i > Len(els) THEN "false"
  ELSE IF ElementVerdict(els[i]) = "detected" THEN "true"
  ELSE IF ElementVerdict(els[i]) = "TypeError" THEN "TypeError"
  ELSE CheckFrom(els, i + 1)

\* lines 112-140: the outer handler turns any exception into False
check_for_no_results_with_config(els) ==
  [raised |-> FALSE, detected |-> CheckFrom(els, 1) = "true"]

\* ------------------------------------------------------------------------
\* scrape_site_with_config
\* ------------------------------------------------------------------------
\* A result card of the page.  title_element: what the title selectors find
\* under the product link ("text", "blank" for an element without text,
\* "none"); ancestor_anchor: whether the title element has an <a> ancestor;
\* link_element: what product_link_selector finds in the card ("href",
\* "no_href" for an element without that attribute, "none").
Card(title_element, ancestor_anchor, link_element) ==
  [title_element |-> title_element, ancestor_anchor |-> ancestor_anchor,
   link_element |-> link_element]

\* get_attribute("href") of the link element
LinkHref(card) == IF card.link_element = "href" THEN "href" ELSE "None"

\* lines 386-436: title and url of product_data after the first block
ExtractTitleAndUrl(card) ==
  IF card.title_element # "none"
  THEN LET title == IF card.title_element = "text" THEN "title text" ELSE ""
       IN  IF card.ancestor_anchor THEN [title |-> title, url |-> "href"]
           ELSE IF card.link_element # "none"
                THEN [title |-> "link text", url |-> LinkHref(card)]
                ELSE [title |-> title, url |-> "N/A"]
  ELSE IF card.link_element = "none" THEN [title |-> "N/A", url |-> "N/A"]
       ELSE [title |-> "link text", url |-> LinkHref(card)]

\* ------------------------------------------------------------------------
\* The fields of one card (lines 386-501)
\* ------------------------------------------------------------------------
\* What the identifier selectors find in a card.  found: "found", "none"
\* (every selector raises NoSuchElementException) or "error" (a lookup
\* fails otherwise, e.g. the element went stale); hidden: the value of the
\* hidden input input[name='sku-id'] ("value", "empty" for value="",
\* "no_value" for no such attribute, "absent"); vendor: the spans under
\* span.vendor-value ("parts", "no_parts", "absent"); text: the text of the
\* element ("text", "prefixed" for a text that starts with Vendor Part #:,
\* "empty")
Sku(found, hidden, vendor, text) ==
  [found |-> found, hidden |-> hidden, vendor |-> vendor, text |-> text]

\* What the price selectors find: class is the class attribute
\* ("price-wrapper", "other", "none" when there is none), parts whether the
\* spans of the wrapper hold text
Price(found, class, parts, text) ==
  [found |-> found, class |-> class, parts |-> parts, text |-> text]

Quantity(found, text) == [found |-> found, text |-> text]

\* a card with all its fields; title_element "error" stands for a title
\* lookup that fails with another error than NoSuchElementException
FieldCard(title_element, ancestor_anchor, link_element, sku, price, quantity) ==
  [title_element |-> title_element, ancestor_anchor |-> ancestor_anchor,
   link_element |-> link_element, sku |-> sku, price |-> price, quantity |-> quantity]

\* sku_element.text.strip() with the checkmarks removed
SkuText(sku) ==
  CASE sku.text = "text" -> "sku text"
    [] sku.text = "prefixed" -> "Vendor Part #: sku text"
    [] OTHER -> ""

\* lines 142-178; "None" is Python's None
extract_sku_from_complex_html(sku) ==
  IF sku.hidden # "absent"
  THEN CASE sku.hidden = "value" -> "hidden value"
         [] sku.hidden = "empty" -> ""
         [] OTHER -> "None"
  ELSE IF sku.vendor = "parts" THEN "span text"
  ELSE SkuText(sku)

\* lines 438-462: part_number of product_data
PartNumber(card) ==
  IF card.sku.found # "found" THEN "N/A"
  ELSE LET extracted_sku == extract_sku_from_complex_html(card.sku)
       IN  IF extracted_sku = "None" THEN "N/A"
           ELSE IF extracted_sku = "Vendor Part #: sku text" THEN "sku text"
           ELSE extracted_sku

PriceText(price) == IF price.text = "text" THEN "price text" ELSE ""

\* lines 180-202
extract_price_from_complex_html(price) ==
  IF price.class = "price-wrapper" /\ price.parts = "parts" THEN "price parts"
  ELSE PriceText(price)

\* lines 464-481: price of product_data
PriceOf(card) ==
  IF card.price.found # "found" THEN "N/A"
  ELSE extract_price_from_complex_html(card.price)

\* lines 204-210
extract_quantity_from_html(quantity) == IF quantity.text = "text" THEN "qty text" ELSE ""

\* lines 483-501: quantity of product_data
QuantityOf(card) ==
  IF card.quantity.found # "found" THEN "N/A"
  ELSE extract_quantity_from_html(card.quantity)

\* lines 395-436: the title lookup raises an error that neither handler of
\* the block catches
TitleBlockRaises(card) == card.title_element = "error"

\* lines 386-501: product_data of a card whose title block does not raise
FieldsOf(card_no, card) ==
  [card |-> card_no,
   title |-> ExtractTitleAndUrl(card).title,
   url |-> ExtractTitleAndUrl(card).url,
   part_number |-> PartNumber(card),
   price |-> PriceOf(card),
   quantity |-> QuantityOf(card)]

\* how the extraction of one card ended
CardOutcome(card_no, outcome) == [card |-> card_no, outcome |-> outcome]

\* line 504 without the test
RetainedAlways(product_data) == TRUE

\* line 504
Retained(product_data) == product_data.title # "N/A" \/ product_data.url # "N/A"

\* line 383 with > in place of >=
CapReachedLate(i, cap) == i > cap

\* line 383: i counts the cards from 0
CapReached(i, cap) == i >= cap

\* an entry of the list the call returns; card is the position of its card
\* on the page (part_number, price, quantity and description are filled
\* independently and are not modelled)
ProductData(card_no, fields) == [card |-> card_no, title |-> fields.title, url |-> fields.url]

\* an entry of the log of what the call did
Step(step, res) == [step |-> step, res |-> res, card |-> 0]
CardStep(res, card_no) == [step |-> "extract", res |-> res, card |-> card_no]

\* ------------------------------------------------------------------------
\* State
\* ------------------------------------------------------------------------
VARIABLES
  quantity_str,      \* argument of parse_inventory_quantity
  parsed_quantity,   \* its return value, NotCalled before the call
  evaluations,       \* the list handed to apply_inventory_aware_ranking
  original_results,  \* the scraped entries
  reordered,         \* the list the reranker returns
  rankPc,            \* "call", "returned" or "raised"
  query,             \* argument of classify_search_type
  search_type,       \* its return value, "" before the call
  max_retries,       \* argument of query_ollama
  attempt,           \* loop variable of query_ollama
  requests_sent,     \* the requests posted so far, with the answer to each
  client_result,     \* return value of query_ollama
  clientPc,          \* "loop", "returned" or "raised"
  llm_response,      \* what query_ollama returned to the evaluation
  results,           \* the entries handed to the evaluation
  apply_post_ranking,\* the flag of the same name
  evaluation,        \* return value of evaluate_search_results_with_inventory
  parse_returned,    \* what parse_enhanced_llm_response returned to it
  tasks,             \* all_search_tasks: for each task, whether it has a query
  config_apply_post_ranking,  \* config.evaluation_config.apply_post_ranking
  task_idx,          \* position of the batch loop, 1-based
  driver,            \* "none", "open" or "closed"
  all_final_results, \* the result records appended so far
  calls,             \* the calls made to the driver setup, scraper and evaluator
  raised_at,         \* the task whose processing raised, 0 when none did
  runPc,             \* "setup", "loop", "done" or "aborted"
  indicator_elements,\* what the page holds for each no-results locator
  check_result,      \* return value of check_for_no_results_with_config
  checkPc,           \* "call" or "returned"
  max_results_per_query,  \* scraping_config.max_results_per_query
  page_cards,        \* product_cards: the cards find_elements returned
  card_idx,          \* i of the enumeration loop, 0-based
  scrape_results,    \* results: the entries appended so far
  steps,             \* what the call did so far, in order
  scrapePc,          \* state of the query executor
  submit_steps,      \* what the submit block did: button lookup, click, Enter key
  card_matches,      \* for each product card selector, the cards it matches
  container_locator, \* the card selector the wait resolved with, 0 for none
  selectors,         \* argument of find_element_with_multiple_selectors
  wait_for_interactable,  \* the flag of the same name
  find_result,       \* the element it returned and the selectors it tried
  findPc,            \* "call" or "returned"
  product_cards,     \* the listed cards, with what each field lookup finds
  card_cap,          \* max_results_per_query of the enumeration
  loop_i,            \* i of the enumeration loop, 0-based
  product_entries,   \* results: the entries appended so far
  card_log,          \* for each card visited, how its extraction ended
  extractPc          \* "loop" or "returned"

qtyVars == <<quantity_str, parsed_quantity>>
rankVars == <<evaluations, original_results, reordered, rankPc>>
classifyVars == <<query, search_type>>
clientVars == <<max_retries, attempt, requests_sent, client_result, clientPc>>

evalVars == <<llm_response, results, apply_post_ranking, evaluation, parse_returned>>

runVars == <<tasks, config_apply_post_ranking, task_idx, driver, all_final_results,
             calls, raised_at, runPc>>

checkVars == <<indicator_elements, check_result, checkPc>>

pageVars == <<submit_steps, card_matches, container_locator>>

scrapeVars == <<max_results_per_query, page_cards, card_idx, scrape_results, steps, scrapePc,
                pageVars>>

findVars == <<selectors, wait_for_interactable, find_result, findPc>>

extractVars == <<product_cards, card_cap, loop_i, product_entries, card_log, extractPc>>

vars == <<qtyVars, rankVars, classifyVars, clientVars, evalVars, runVars, checkVars, scrapeVars,
          findVars, extractVars>>

NotCalled == [numeric |-> -1, status |-> "<not called>"]

QtyIdle == quantity_str = <<>> /\ parsed_quantity = NotCalled
RankIdle == evaluations = <<>> /\ original_results = <<>> /\ reordered = <<>> /\ rankPc = "idle"
ClassifyIdle == query = <<>> /\ search_type = ""
ClientIdle ==
  /\ max_retries = 0 /\ attempt = 0 /\ requests_sent = <<>>
  /\ client_result = NoResult /\ clientPc = "idle"
EvalIdle ==
  /\ llm_response = NoResult /\ results = <<>>
  /\ apply_post_ranking = TRUE /\ evaluation = NotEvaluated
  /\ parse_returned = ParserNotCalled
RunIdle ==
  /\ tasks = <<>> /\ config_apply_post_ranking = TRUE /\ task_idx = 0
  /\ driver = "none" /\ all_final_results = <<>> /\ calls = <<>>
  /\ raised_at = 0 /\ runPc = "idle"

CheckIdle ==
  /\ indicator_elements = <<>>
  /\ check_result = [raised |-> FALSE, detected |-> FALSE]
  /\ checkPc = "idle"
ScrapeIdle ==
  /\ max_results_per_query = 0 /\ page_cards = <<>> /\ card_idx = 0
  /\ scrape_results = <<>> /\ steps = <<>> /\ scrapePc = "idle"
  /\ submit_steps = <<>> /\ card_matches = <<>> /\ container_locator = 0
FindIdle ==
  /\ selectors = <<>> /\ wait_for_interactable = FALSE
  /\ find_result = FindNotCalled /\ findPc = "idle"
ExtractIdle ==
  /\ product_cards = <<>> /\ card_cap = 0 /\ loop_i = 0
  /\ product_entries = <<>> /\ card_log = <<>> /\ extractPc = "idle"

\* the variables of the other functions, and their resting values
notQtyVars == <<rankVars, classifyVars, clientVars, evalVars, runVars, checkVars, scrapeVars, findVars,
   extractVars>>
notRankVars == <<qtyVars, classifyVars, clientVars, evalVars, runVars, checkVars, scrapeVars, findVars,
   extractVars>>
notClassifyVars == <<qtyVars, rankVars, clientVars, evalVars, runVars, checkVars, scrapeVars, findVars,
   extractVars>>
notClientVars == <<qtyVars, rankVars, classifyVars, evalVars, runVars, checkVars, scrapeVars, findVars,
   extractVars>>
notEvalVars == <<qtyVars, rankVars, classifyVars, clientVars, runVars, checkVars, scrapeVars, findVars,
   extractVars>>
notRunVars == <<qtyVars, rankVars, classifyVars, clientVars, evalVars, checkVars, scrapeVars, findVars,
   extractVars>>
notCheckVars == <<qtyVars, rankVars, classifyVars, clientVars, evalVars, runVars, scrapeVars, findVars,
   extractVars>>
notScrapeVars == <<qtyVars, rankVars, classifyVars, clientVars, evalVars, runVars, checkVars, findVars,
   extractVars>>
notFindVars == <<qtyVars, rankVars, classifyVars, clientVars, evalVars, runVars, checkVars, scrapeVars,
   extractVars>>
notExtractVars == <<qtyVars, rankVars, classifyVars, clientVars, evalVars, runVars, checkVars, scrapeVars,
   findVars>>
OnlyQty == RankIdle /\ ClassifyIdle /\ ClientIdle /\ EvalIdle /\ RunIdle /\ CheckIdle /\ ScrapeIdle /\ FindIdle
  /\ ExtractIdle
OnlyRank == QtyIdle /\ ClassifyIdle /\ ClientIdle /\ EvalIdle /\ RunIdle /\ CheckIdle /\ ScrapeIdle /\ FindIdle
  /\ ExtractIdle
OnlyClassify == QtyIdle /\ RankIdle /\ ClientIdle /\ EvalIdle /\ RunIdle /\ CheckIdle /\ ScrapeIdle /\ FindIdle
  /\ ExtractIdle
OnlyClient == QtyIdle /\ RankIdle /\ ClassifyIdle /\ EvalIdle /\ RunIdle /\ CheckIdle /\ ScrapeIdle /\ FindIdle
  /\ ExtractIdle
OnlyEval == QtyIdle /\ RankIdle /\ ClassifyIdle /\ ClientIdle /\ RunIdle /\ CheckIdle /\ ScrapeIdle /\ FindIdle
  /\ ExtractIdle
OnlyRun == QtyIdle /\ RankIdle /\ ClassifyIdle /\ ClientIdle /\ EvalIdle /\ CheckIdle /\ ScrapeIdle /\ FindIdle
  /\ ExtractIdle
OnlyCheck == QtyIdle /\ RankIdle /\ ClassifyIdle /\ ClientIdle /\ EvalIdle /\ RunIdle /\ ScrapeIdle /\ FindIdle
  /\ ExtractIdle
OnlyScrape == QtyIdle /\ RankIdle /\ ClassifyIdle /\ ClientIdle /\ EvalIdle /\ RunIdle /\ CheckIdle /\ FindIdle
  /\ ExtractIdle
OnlyFind ==
  QtyIdle /\ RankIdle /\ ClassifyIdle /\ ClientIdle /\ EvalIdle /\ RunIdle /\ CheckIdle /\ ScrapeIdle
  /\ ExtractIdle
OnlyExtract ==
  QtyIdle /\ RankIdle /\ ClassifyIdle /\ ClientIdle /\ EvalIdle /\ RunIdle /\ CheckIdle /\ ScrapeIdle
  /\ FindIdle

\* ------------------------------------------------------------------------
\* Inputs
\* ------------------------------------------------------------------------
QtyAlphabet == {"0", "2", "4", "5", "N", "/", "A", "-"}

TextOutOfStock == <<"O", "u", "t", " ", "o", "f", " ", "S", "t", "o", "c", "k">>
TextUnavailable == <<"U", "n", "a", "v", "a", "i", "l", "a", "b", "l", "e">>
TextLowStock == <<"L", "o", "w", " ", "s", "t", "o", "c", "k">>
TextLimited == <<"l", "i", "m", "i", "t", "e", "d">>
TextInStock == <<"I", "n", " ", "S", "t", "o", "c", "k">>
TextAvailable == <<"A", "v", "a", "i", "l", "a", "b", "l", "e">>
TextCall == <<"C", "a", "l", "l">>
TextQty12 == <<"Q", "t", "y", ":", " ", "1", "2", " ", "(", "3", ")">>
TextLimitedInStock == <<"L", "i", "m", "i", "t", "e", "d", ",", " ", "i", "n", " ", "s", "t", "o", "c", "k">>
TextLowStockUnavailable ==
  <<"L", "o", "w", " ", "s", "t", "o", "c", "k", " ", "u", "n", "a", "v", "a", "i", "l", "a", "b", "l", "e">>

QuantityStrings ==
  SeqsUpTo(QtyAlphabet, MaxQtyLen)
    \cup {TextOutOfStock, TextUnavailable, TextLowStock, TextLimited,
          TextInStock, TextAvailable, TextCall, TextQty12,
          TextLimitedInStock, TextLowStockUnavailable}

Entry(q) == [quantity |-> q]

CatalogA == <<Entry(<<"0">>), Entry(<<"5", "0", "0">>), Entry(<<"2">>), Entry(NAText), Entry(<<"2">>)>>
CatalogB == <<Entry(<<"2">>), Entry(<<"2">>), Entry(TextInStock), Entry(<<"0">>), Entry(<<"5">>)>>

Min(a, b) == IF a < b THEN a ELSE b

EntryLists ==
  {SubSeq(c, 1, Min(n, Len(c))) : c \in {CatalogA, CatalogB}, n \in 0..MaxEntries}

\* result_index 0 with every kind of label, the other positions with the
\* first and the last tier, and three irregular records
EvalPool ==
  {EvalItem("dict", "int", 0, rel, 0) : rel \in {"High", "Medium", "Low", "Very High", Missing}}
    \cup {EvalItem("dict", "int", ri, rel, 0) : ri \in {1, 2}, rel \in {"High", "Low"}}
    \cup {EvalItem("dict", "missing", 0, "High", 0),
          EvalItem("dict", "int", -1, "Medium", 0),
          EvalItem("scalar", "missing", 0, Missing, 0)}

WithPositions(s) == [i \in 1..Len(s) |-> [s[i] EXCEPT !.pos = i]]

EvalLists == {WithPositions(s) : s \in SeqsUpTo(EvalPool, MaxEvals)}

\* ------------------------------------------------------------------------
\* Specification of parse_inventory_quantity
\* ------------------------------------------------------------------------
QtyInit ==
  /\ quantity_str \in QuantityStrings
  /\ parsed_quantity = NotCalled
  /\ OnlyQty

ParseQuantity ==
  /\ parsed_quantity = NotCalled
  /\ parsed_quantity' = parse_inventory_quantity(quantity_str)
  /\ UNCHANGED <<quantity_str, notQtyVars>>

QtyNext == ParseQuantity

QtySpec == QtyInit /\ [][QtyNext]_vars

\* ------------------------------------------------------------------------
\* Specification of apply_inventory_aware_ranking
\* ------------------------------------------------------------------------
RankInit ==
  /\ evaluations \in EvalLists
  /\ original_results \in EntryLists
  /\ reordered = <<>>
  /\ rankPc = "call"
  /\ OnlyRank

ApplyRanking ==
  /\ rankPc = "call"
  /\ LET r == apply_inventory_aware_ranking(evaluations, original_results)
     IN  /\ rankPc' = IF r.raised THEN "raised" ELSE "returned"
         /\ reordered' = r.value
         /\ evaluations' = MutatedEvaluations(evaluations, original_results)
  /\ UNCHANGED <<original_results, notRankVars>>

RankNext == ApplyRanking

RankSpec == RankInit /\ [][RankNext]_vars

\* ------------------------------------------------------------------------
\* Specification of classify_search_type
\* ------------------------------------------------------------------------
QueryAlphabet == {"a", "B", "6", "-", "/", " ", "\t"}

QueryGasket == <<"g", "a", "s", "k", "e", "t">>
QueryBK608 == <<"B", "K", "6", "0", "8">>
Query513188 == <<"5", "1", "3", "1", "8", "8">>
Query12345 == <<"1", "2", "-", "3", "4", "5">>
QueryBrakePads ==
  <<"b", "r", "a", "k", "e", " ", "p", "a", "d", "s", " ", "t", "o", "y", "o", "t", "a",
    " ", "c", "a", "m", "r", "y">>

Queries ==
  SeqsUpTo(QueryAlphabet, MaxQueryLen)
    \cup {QueryGasket, QueryBK608, Query513188, Query12345, QueryBrakePads}

ClassifyInit ==
  /\ query \in Queries
  /\ search_type = ""
  /\ OnlyClassify

Classify ==
  /\ search_type = ""
  /\ search_type' = classify_search_type(query)
  /\ UNCHANGED <<query, notClassifyVars>>

ClassifyNext == Classify

ClassifySpec == ClassifyInit /\ [][ClassifyNext]_vars

\* ------------------------------------------------------------------------
\* Specification of query_ollama
\* ------------------------------------------------------------------------
ClientInit ==
  /\ max_retries \in 0..MaxRetriesBound
  /\ attempt = 0
  /\ requests_sent = <<>>
  /\ client_result = NoResult
  /\ clientPc = "loop"
  /\ OnlyClient

Sent(outcome) == Append(requests_sent, [payload |-> Payload, outcome |-> outcome])

\* the loop goes on after a failed attempt, or ends with the failure marker
AfterFailure ==
  /\ attempt' = attempt + 1
  /\ IF attempt + 1 \in RetryRange(max_retries)
     THEN clientPc' = "loop" /\ client_result' = client_result
     ELSE clientPc' = "returned" /\ client_result' = FailureMarker(max_retries)

\* a loop that stores the body of a 200 answer and goes on to the next attempt
AttemptOkKeepsTrying ==
  /\ clientPc = "loop" /\ attempt \in RetryRange(max_retries)
  /\ requests_sent' = Sent("200")
  /\ attempt' = attempt + 1
  /\ client_result' = ResponseBody(<<Tok("prose")>>)
  /\ clientPc' = IF attempt + 1 \in RetryRange(max_retries) THEN "loop" ELSE "returned"
  /\ UNCHANGED <<max_retries, notClientVars>>

\* lines 290-297: the answer has status 200 and a JSON body
AttemptOk ==
  /\ clientPc = "loop" /\ attempt \in RetryRange(max_retries)
  /\ requests_sent' = Sent("200")
  /\ client_result' = ResponseBody(<<Tok("prose")>>)
  /\ clientPc' = "returned"
  /\ UNCHANGED <<max_retries, attempt, notClientVars>>

\* lines 298-301: any other status
AttemptBadStatus ==
  /\ clientPc = "loop" /\ attempt \in RetryRange(max_retries)
  /\ requests_sent' = Sent("non200")
  /\ AfterFailure
  /\ UNCHANGED <<max_retries, notClientVars>>

\* lines 303-305: requests.post raises a RequestException
AttemptTransportError ==
  /\ clientPc = "loop" /\ attempt \in RetryRange(max_retries)
  /\ requests_sent' = Sent("transport")
  /\ AfterFailure
  /\ UNCHANGED <<max_retries, notClientVars>>

\* line 297: status 200 with a body that is not JSON; response.json() raises
\* an error that is a RequestException in recent versions of the library
\* (caught, the loop goes on) and a ValueError in older ones (not caught)
AttemptBadBody ==
  /\ clientPc = "loop" /\ attempt \in RetryRange(max_retries)
  /\ requests_sent' = Sent("200_not_json")
  /\ \/ AfterFailure
     \/ clientPc' = "raised" /\ UNCHANGED <<attempt, client_result>>
  /\ UNCHANGED <<max_retries, notClientVars>>

\* line 307 when the loop body never runs
NoAttempt ==
  /\ clientPc = "loop" /\ attempt \notin RetryRange(max_retries)
  /\ client_result' = FailureMarker(max_retries)
  /\ clientPc' = "returned"
  /\ UNCHANGED <<max_retries, attempt, requests_sent, notClientVars>>

ClientNext ==
  \/ AttemptOk
  \/ AttemptBadStatus
  \/ AttemptTransportError
  \/ AttemptBadBody
  \/ NoAttempt

ClientSpec == ClientInit /\ [][ClientNext]_vars

\* ------------------------------------------------------------------------
\* Specification of evaluate_search_results_with_inventory
\* ------------------------------------------------------------------------
BasicTokens ==
  {Tok("{"), Tok("}"), Tok("["), Tok("]"), Tok(","), Tok("key_eval"), Tok("prose")}

\* every text of at most MaxTextLen basic tokens
ShortTexts == SeqsUpTo(BasicTokens, MaxTextLen)

RECURSIVE JoinWithCommas(_)
JoinWithCommas(parts) ==
  IF parts = <<>> THEN <<>>
  ELSE IF Len(parts) = 1 THEN parts[1]
  ELSE parts[1] \o <<Tok(",")>> \o JoinWithCommas(Tail(parts))

OptComma(b) == IF b THEN <<Tok(",")>> ELSE <<>>

\* the members a record object of the generated text may hold
RecordMembers ==
  {<<TokIndex(0), Tok(","), TokRelevance("High")>>,
   <<TokIndex(1), Tok(","), TokRelevance("High")>>,
   <<TokIndex(1), Tok(","), TokRelevance("Low")>>,
   <<TokIndex(7), Tok(","), TokRelevance("Medium")>>,
   <<TokIndexOther>>}

RecordObject(members, comma) == <<Tok("{")>> \o members \o OptComma(comma) \o <<Tok("}")>>

\* { "evaluations": [ record, ... ] } with optional trailing commas
EvaluationsObject(keyTok, records, comma, tail) ==
  <<Tok("{"), keyTok, Tok("[")>>
    \o JoinWithCommas([i \in DOMAIN records |-> RecordObject(records[i], comma)])
    \o OptComma(comma) \o <<Tok("]")>> \o tail \o OptComma(comma) \o <<Tok("}")>>

ProseBefore == {<<>>, <<Tok("prose")>>, <<Tok("prose"), Tok("{"), Tok("prose"), Tok("}")>>}
ProseAfter == {<<>>, <<Tok("prose")>>}

\* prose, an object with an evaluations array of n records, prose
ShapedTexts(n) ==
  {pre \o EvaluationsObject(Tok("key_eval"), records, comma, <<>>) \o post :
      pre \in ProseBefore, post \in ProseAfter, comma \in BOOLEAN,
      records \in [1..n -> RecordMembers]}

\* the same object with the key spelled with an escape and a later member
\* whose value is the string "evaluations"
EscapedKeyTexts ==
  {EvaluationsObject(Tok("key_eval_esc"), records, FALSE,
                     <<Tok(","), Tok("key"), Tok("str_eval")>>) :
      records \in SeqsUpTo(RecordMembers, MaxRecords)}

\* objects whose "evaluations" is not a list of objects
OddTexts ==
  {<<Tok("{"), Tok("key_eval"), Tok("["), Tok("scalar"), Tok("]"), Tok("}")>>,
   <<Tok("{"), Tok("key_eval"), Tok("["), Tok("scalar"), Tok(","), Tok("scalar"), Tok("]"), Tok("}")>>,
   <<Tok("{"), Tok("key_eval"), Tok("scalar"), Tok("}")>>,
   <<Tok("{"), Tok("key_eval"), Tok("["), Tok("["), Tok("]"), Tok("]"), Tok("}")>>,
   <<Tok("{"), Tok("key"), Tok("str_eval"), Tok("}")>>,
   <<Tok("{"), Tok("key_eval_esc"), Tok("{"), Tok("}"), Tok(","), Tok("key"), Tok("str_eval"), Tok("}")>>}

\* the shaped texts by the number of records they hold
ShapedTextsByCount == [n \in 0..MaxRecords |-> ShapedTexts(n)]

RecordTexts ==
  (UNION {ShapedTextsByCount[n] : n \in 0..MaxRecords}) \cup EscapedKeyTexts \cup OddTexts

EvalEntryLists == {SubSeq(CatalogA, 1, Min(n, Len(CatalogA))) : n \in 0..MaxEntries}

EvalInit ==
  /\ \/ /\ llm_response \in {ResponseBody(t) : t \in ShortTexts}
                              \cup {FailureMarker(n) : n \in 0..MaxRetriesBound}
        /\ results = SubSeq(CatalogA, 1, 1)
     \/ /\ llm_response \in {ResponseBody(t) : t \in RecordTexts}
        /\ results \in EvalEntryLists
  /\ apply_post_ranking \in BOOLEAN
  /\ evaluation = NotEvaluated
  /\ parse_returned = ParserNotCalled
  /\ OnlyEval

Evaluate ==
  /\ evaluation = NotEvaluated
  /\ parse_returned' = parse_enhanced_llm_response(llm_response)
  /\ evaluation' = evaluate_search_results_with_inventory(llm_response, results, apply_post_ranking)
  /\ UNCHANGED <<llm_response, results, apply_post_ranking, notEvalVars>>

EvalNext == Evaluate

EvalSpec == EvalInit /\ [][EvalNext]_vars

\* ------------------------------------------------------------------------
\* Specification of run_configurable_agentic_search
\* ------------------------------------------------------------------------
\* what scrape_site_with_config hands back for one query: a list of entries,
\* empty after a no-results page ("no_results") and after a structural
\* failure ("failed")
ScrapeOutcomes ==
  {[reason |-> "no_results", entries |-> <<>>],
   [reason |-> "failed", entries |-> <<>>],
   [reason |-> "enumerated", entries |-> SubSeq(CatalogA, 1, 1)],
   [reason |-> "enumerated", entries |-> SubSeq(CatalogA, 1, 2)]}

\* what query_ollama hands back for one query
BatchResponses ==
  {FailureMarker(MaxRetriesBound),
   ResponseBody(<<Tok("prose")>>),
   ResponseBody(<<Tok("{"), Tok("key_eval"), Tok("["), Tok("]"), Tok("}")>>),
   ResponseBody(<<Tok("{"), Tok("key_eval"), Tok("["), Tok("scalar"), Tok("]"), Tok("}")>>),
   ResponseBody(EvaluationsObject(Tok("key_eval"), <<<<TokIndex(0), Tok(","), TokRelevance("High")>>>>,
                                  FALSE, <<>>)),
   ResponseBody(EvaluationsObject(Tok("key_eval_esc"), <<<<TokIndex(0), Tok(","), TokRelevance("High")>>>>,
                                  FALSE, <<Tok(","), Tok("key"), Tok("str_eval")>>)),
   ResponseBody(EvaluationsObject(Tok("key_eval_esc"), <<<<TokIndexOther>>>>,
                                  FALSE, <<Tok(","), Tok("key"), Tok("str_eval")>>))}

\* main.py lines 419-432 on a successful evaluation: the display loop and
\* generate_business_summary read result_index and relevance of every record
\* the way the reranker does, and raise where it would
SummaryRaises(eval_result, scraped_results) ==
  /\ eval_result.status = "success"
  /\ \/ eval_result.kind = "other"
     \/ \E i \in DOMAIN eval_result.evaluations :
           \/ LookupRaises(eval_result.evaluations[i], scraped_results)
           \/ GroupingRaises(eval_result.evaluations[i])

\* lines 401-446 once the evaluation has returned eval_result: the display
\* and the summary either raise or the record of the query is written
OutcomeOfEvaluation(eval_result, scraped_results) ==
  IF eval_result = Raised THEN [raised |-> TRUE, stage |-> "evaluate", status |-> "", n |-> 0]
  ELSE IF SummaryRaises(eval_result, scraped_results)
  THEN [raised |-> TRUE, stage |-> "summary", status |-> "", n |-> 0]
  ELSE [raised |-> FALSE, stage |-> "", status |-> eval_result.status,
        n |-> Len(eval_result.evaluations)]

\* the outcome of lines 385-446 for one query with scraped entries
TaskOutcome(llm_resp, scraped_results, post_ranking) ==
  OutcomeOfEvaluation(
    evaluate_search_results_with_inventory(llm_resp, scraped_results, post_ranking),
    scraped_results)

ResultRecord(task, status, nScraped, nEvals) ==
  [task |-> task, status |-> status, scraped_results |-> nScraped, evaluation |-> nEvals]

Call(op, task, detail) == [op |-> op, task |-> task, detail |-> detail]

RunInit ==
  /\ tasks \in SeqsUpTo(BOOLEAN, MaxTasks)
  /\ config_apply_post_ranking \in BOOLEAN
  /\ task_idx = 1
  /\ driver = "none"
  /\ all_final_results = <<>>
  /\ calls = <<>>
  /\ raised_at = 0
  /\ runPc = "setup"
  /\ OnlyRun

\* lines 344-347
SetupDriverOk ==
  /\ runPc = "setup"
  /\ driver' = "open"
  /\ calls' = Append(calls, Call("setup_driver", 0, "ok"))
  /\ runPc' = "loop"
  /\ UNCHANGED <<tasks, config_apply_post_ranking, task_idx, all_final_results, raised_at, notRunVars>>

SetupDriverFails ==
  /\ runPc = "setup"
  /\ calls' = Append(calls, Call("setup_driver", 0, "none"))
  /\ runPc' = "done"
  /\ UNCHANGED <<tasks, config_apply_post_ranking, task_idx, driver, all_final_results,
                 raised_at, notRunVars>>

InLoop == runPc = "loop" /\ task_idx \in DOMAIN tasks

\* lines 351-354
SkipTask ==
  /\ InLoop /\ ~tasks[task_idx]
  /\ task_idx' = task_idx + 1
  /\ UNCHANGED <<tasks, config_apply_post_ranking, driver, all_final_results, calls,
                 raised_at, runPc, notRunVars>>

\* lines 362-374: the scraper returns an empty list
ScrapeEmpty ==
  /\ InLoop /\ tasks[task_idx]
  /\ \E scraped \in ScrapeOutcomes :
        /\ scraped.entries = <<>>
        /\ calls' = Append(calls, Call("scrape", task_idx, scraped.reason))
  /\ all_final_results' = Append(all_final_results,
                                 ResultRecord(task_idx, "scraping_failed", 0, 0))
  /\ task_idx' = task_idx + 1
  /\ UNCHANGED <<tasks, config_apply_post_ranking, driver, raised_at, runPc, notRunVars>>

\* lines 362-463: scraping, evaluation and summary run to the end
ProcessTaskCompletes ==
  /\ InLoop /\ tasks[task_idx]
  /\ \E scraped \in ScrapeOutcomes, llm_resp \in BatchResponses :
     \E o \in {TaskOutcome(llm_resp, scraped.entries, config_apply_post_ranking)} :
            /\ scraped.entries # <<>>
            /\ ~o.raised
            /\ calls' = calls \o <<Call("scrape", task_idx, scraped.reason),
                                   Call("evaluate", task_idx, o.status)>>
            /\ all_final_results' =
                 Append(all_final_results,
                        ResultRecord(task_idx, o.status, Len(scraped.entries), o.n))
  /\ task_idx' = task_idx + 1
  /\ UNCHANGED <<tasks, config_apply_post_ranking, driver, raised_at, runPc, notRunVars>>

\* lines 390-432 raise and there is no finally clause: the error leaves the
\* function and the session stays open
ProcessTaskRaisesNoFinally ==
  /\ InLoop /\ tasks[task_idx]
  /\ \E scraped \in ScrapeOutcomes, llm_resp \in BatchResponses :
     \E o \in {TaskOutcome(llm_resp, scraped.entries, config_apply_post_ranking)} :
            /\ scraped.entries # <<>>
            /\ o.raised
            /\ calls' = calls \o <<Call("scrape", task_idx, scraped.reason),
                                   Call("evaluate", task_idx, o.stage)>>
  /\ raised_at' = task_idx
  /\ runPc' = "aborted"
  /\ UNCHANGED <<tasks, config_apply_post_ranking, task_idx, driver, all_final_results,
                 notRunVars>>

\* lines 390-432 raise: nothing in the loop catches, the finally clause quits
\* the driver and the error leaves run_configurable_agentic_search
ProcessTaskRaises ==
  /\ InLoop /\ tasks[task_idx]
  /\ \E scraped \in ScrapeOutcomes, llm_resp \in BatchResponses :
     \E o \in {TaskOutcome(llm_resp, scraped.entries, config_apply_post_ranking)} :
            /\ scraped.entries # <<>>
            /\ o.raised
            /\ calls' = calls \o <<Call("scrape", task_idx, scraped.reason),
                                   Call("evaluate", task_idx, o.stage),
                                   Call("quit", 0, "finally")>>
  /\ raised_at' = task_idx
  /\ driver' = "closed"
  /\ runPc' = "aborted"
  /\ UNCHANGED <<tasks, config_apply_post_ranking, task_idx, all_final_results, notRunVars>>

\* lines 465-472: the loop is over
FinishRun ==
  /\ runPc = "loop" /\ task_idx \notin DOMAIN tasks
  /\ driver' = "closed"
  /\ calls' = Append(calls, Call("quit", 0, "finally"))
  /\ runPc' = "done"
  /\ UNCHANGED <<tasks, config_apply_post_ranking, task_idx, all_final_results,
                 raised_at, notRunVars>>

RunNext ==
  \/ SetupDriverOk
  \/ SetupDriverFails
  \/ SkipTask
  \/ ScrapeEmpty
  \/ ProcessTaskCompletes
  \/ ProcessTaskRaises
  \/ FinishRun

RunSpec == RunInit /\ [][RunNext]_vars

\* ------------------------------------------------------------------------
\* Specification of check_for_no_results_with_config
\* ------------------------------------------------------------------------
TextNoResults == <<"N", "o", " ", "r", "e", "s", "u", "l", "t", "s">>
TextZeroResults == <<"0", " ", "R", "e", "s", "u", "l", "t", "s">>
TextReturnedZero == <<"R", "e", "t", "u", "r", "n", "e", "d", " ", "0", " ", "r", "e", "s", "u", "l", "t", "s">>
TextNoItemsFound == <<"N", "o", " ", "i", "t", "e", "m", "s", " ", "f", "o", "u", "n", "d">>
TextNoProductsFound == <<"N", "o", " ", "P", "r", "o", "d", "u", "c", "t", "s", " ", "F", "o", "u", "n", "d">>
TextTenItems == <<"1", "0", " ", "i", "t", "e", "m", "s">>
TextSale == <<"S", "a", "l", "e">>

IndicatorTexts ==
  {TextNoResults, TextZeroResults, TextReturnedZero, TextNoItemsFound,
   TextNoProductsFound, TextTenItems, TextSale}

IndicatorElements ==
  {IndicatorElement("absent", <<>>), IndicatorElement("hidden", TextNoResults)}
    \cup {IndicatorElement("visible", t) : t \in IndicatorTexts}

CheckInit ==
  /\ indicator_elements \in SeqsUpTo(IndicatorElements, MaxLocators)
  /\ check_result = [raised |-> FALSE, detected |-> FALSE]
  /\ checkPc = "call"
  /\ OnlyCheck

CheckNoResults ==
  /\ checkPc = "call"
  /\ check_result' = check_for_no_results_with_config(indicator_elements)
  /\ checkPc' = "returned"
  /\ UNCHANGED <<indicator_elements, notCheckVars>>

CheckNext == CheckNoResults

CheckSpec == CheckInit /\ [][CheckNext]_vars

\* ------------------------------------------------------------------------
\* Specification of find_element_with_multiple_selectors
\* ------------------------------------------------------------------------
\* an element that can be clicked is present
SelectorKinds ==
  {Selector("found", "found"), Selector("found", "timeout"),
   Selector("timeout", "timeout"), Selector("error", "error")}

SelectorArgs ==
  {SelectorArg("str", <<sel>>) : sel \in SelectorKinds}
    \cup {SelectorArg("list", list) : list \in SeqsUpTo(SelectorKinds, MaxLocators)}

FindInit ==
  /\ selectors \in SelectorArgs
  /\ wait_for_interactable \in BOOLEAN
  /\ find_result = FindNotCalled
  /\ findPc = "call"
  /\ OnlyFind

FindElement ==
  /\ findPc = "call"
  /\ find_result' = find_element_with_multiple_selectors(selectors, wait_for_interactable)
  /\ findPc' = "returned"
  /\ UNCHANGED <<selectors, wait_for_interactable, notFindVars>>

FindNext == FindElement

FindSpec == FindInit /\ [][FindNext]_vars

\* ------------------------------------------------------------------------
\* Specification of scrape_site_with_config
\* ------------------------------------------------------------------------
\* what the page may hold for the no-results locators when they are checked
IndicatorSamples ==
  {<<>>,
   <<IndicatorElement("hidden", TextNoResults)>>,
   <<IndicatorElement("visible", TextNoResults)>>,
   <<IndicatorElement("visible", TextTenItems), IndicatorElement("visible", TextNoResults)>>}

CardKinds ==
  {Card("text", TRUE, "href"),
   Card("blank", TRUE, "href"),
   Card("text", FALSE, "none"),
   Card("blank", FALSE, "no_href"),
   Card("none", FALSE, "href"),
   Card("none", FALSE, "none")}

CardLists == SeqsUpTo(CardKinds, MaxCards)

\* what a card selector after the first may match
LaterCardLists == {<<>>, <<Card("text", TRUE, "href")>>}

\* the page after the submit: the cards each of the product card selectors
\* matches, for 1..MaxCardLocators selectors
CardPages ==
  UNION {{<<first>> \o later : first \in CardLists, later \in [1..(n - 1) -> LaterCardLists]} :
           n \in 1..MaxCardLocators}

\* the search button selectors: one or two, each resolving or timing out
ButtonSelectorArgs ==
  {SelectorArg("list", list) :
     list \in UNION {[1..n -> {Selector("found", "found"), Selector("timeout", "timeout")}] :
                       n \in 1..2}}

\* lines 251-252; max_results_per_query is positive (config_loader.py line 270)
ScrapeInit ==
  /\ max_results_per_query \in 1..MaxCap
  /\ page_cards = <<>>
  /\ card_idx = 0
  /\ scrape_results = <<>>
  /\ steps = <<>>
  /\ scrapePc = "init"
  /\ submit_steps = <<>>
  /\ card_matches = <<>>
  /\ container_locator = 0
  /\ OnlyScrape

\* the executor moves to pc and none of its lists changes
Log(pc, log) ==
  /\ scrapePc' = pc
  /\ steps' = steps \o log
  /\ UNCHANGED <<max_results_per_query, page_cards, card_idx, scrape_results, notScrapeVars>>

\* return results at one of the early exits
ReturnEarly(pc, log) == Log(pc, log) /\ UNCHANGED pageVars

\* the next state of the executor is reached
GoOn(pc, log) == Log(pc, log) /\ UNCHANGED pageVars

\* lines 256-270
LoadPageOk ==
  /\ scrapePc = "init"
  /\ GoOn("page_loaded", <<Step("load_page", "ok")>>)

\* lines 272-273 without the return of line 274
LoadPageFailsGoesOn ==
  /\ scrapePc = "init"
  /\ GoOn("page_loaded", <<Step("load_page", "failed")>>)

\* lines 272-274
LoadPageFails ==
  /\ scrapePc = "init"
  /\ ReturnEarly("failed", <<Step("load_page", "failed")>>)

\* lines 277-296
SearchInputOk ==
  /\ scrapePc = "page_loaded"
  /\ GoOn("input_entered", <<Step("search_input", "ok")>>)

\* lines 285-292: no selector resolves
SearchInputUnresolved ==
  /\ scrapePc = "page_loaded"
  /\ ReturnEarly("failed", <<Step("search_input", "unresolved")>>)

\* lines 294-300: clear or send_keys raises
SearchInputRaises ==
  /\ scrapePc = "page_loaded"
  /\ ReturnEarly("failed", <<Step("search_input", "failed")>>)

\* lines 305-310: the lookup of the search button
ButtonLookup(button_selectors) ==
  Step("find_button",
       IF find_element_with_multiple_selectors(button_selectors, FALSE).element # 0
       THEN "ok" ELSE "unresolved")

\* what the submit block does before it turns to the Enter key: the button
\* does not resolve (line 311), or it resolves and the click raises (line 321)
BeforeEnterKey ==
  {<<ButtonLookup(b)>> : b \in {a \in ButtonSelectorArgs : ButtonLookup(a).res = "unresolved"}}
    \cup {<<ButtonLookup(b), Step("click", "failed")>> :
             b \in {a \in ButtonSelectorArgs : ButtonLookup(a).res = "ok"}}

\* lines 303-322: the button resolves and the click succeeds
SubmitClicked ==
  /\ scrapePc = "input_entered"
  /\ \E b \in ButtonSelectorArgs :
        /\ ButtonLookup(b).res = "ok"
        /\ submit_steps' = <<ButtonLookup(b), Step("click", "ok")>>
  /\ Log("submitted", <<Step("submit", "clicked")>>)
  /\ UNCHANGED <<card_matches, container_locator>>

\* lines 318-319 and 331-333 without the return
SubmitFailsGoesOn ==
  /\ scrapePc = "input_entered"
  /\ \E before \in BeforeEnterKey :
        submit_steps' = Append(before, Step("enter_key", "failed"))
  /\ Log("submitted", <<Step("submit", "failed")>>)
  /\ UNCHANGED <<card_matches, container_locator>>

\* lines 311-317 and 324-330: no button, or the click raised, and the Enter
\* key is accepted
SubmitByEnterKey ==
  /\ scrapePc = "input_entered"
  /\ \E before \in BeforeEnterKey :
        submit_steps' = Append(before, Step("enter_key", "ok"))
  /\ Log("submitted", <<Step("submit", "enter_key")>>)
  /\ UNCHANGED <<card_matches, container_locator>>

\* lines 318-319 and 331-333: the Enter key fails too
SubmitFails ==
  /\ scrapePc = "input_entered"
  /\ \E before \in BeforeEnterKey :
        submit_steps' = Append(before, Step("enter_key", "failed"))
  /\ Log("failed", <<Step("submit", "failed")>>)
  /\ UNCHANGED <<card_matches, container_locator>>

\* the log entry of one call of check_for_no_results_with_config
CheckStep(els) ==
  Step("check_no_results",
       IF check_for_no_results_with_config(els).detected THEN "detected" ELSE "clear")

\* lines 339-344
FirstNoResultsCheck ==
  /\ scrapePc = "submitted"
  /\ \E els \in IndicatorSamples :
        IF check_for_no_results_with_config(els).detected
        THEN ReturnEarly("no_results", <<CheckStep(els)>>)
        ELSE GoOn("indicator_clear", <<CheckStep(els)>>)

\* the selectors of product_card_selectors as the wait of line 346 sees them:
\* a selector resolves when it matches a card
CardSelectors(matches) ==
  SelectorArg("list",
     [k \in DOMAIN matches |->
        IF matches[k] # <<>> THEN Selector("found", "found")
        ELSE Selector("timeout", "timeout")])

\* line 346
ContainerLookup(matches) ==
  find_element_with_multiple_selectors(CardSelectors(matches), FALSE).element

\* lines 346-351 and 362: a card selector resolves, on one of the given pages
CardContainerResolvedOn(pages) ==
  /\ scrapePc = "indicator_clear"
  /\ \E matches \in pages :
        /\ ContainerLookup(matches) # 0
        /\ card_matches' = matches
        /\ container_locator' = ContainerLookup(matches)
  /\ Log("results_checked", <<Step("find_card", "ok")>>)
  /\ UNCHANGED submit_steps

CardContainerResolved == CardContainerResolvedOn(CardPages)

\* lines 351-353 and then line 360 at once
CardContainerUnresolvedNoRecheck ==
  /\ scrapePc = "indicator_clear"
  /\ \E matches \in CardPages :
        /\ ContainerLookup(matches) = 0
        /\ card_matches' = matches
        /\ container_locator' = 0
  /\ Log("failed", <<Step("find_card", "unresolved")>>)
  /\ UNCHANGED submit_steps

\* lines 351-360: no card selector resolves, the indicators are checked again
CardContainerUnresolvedOn(pages) ==
  /\ scrapePc = "indicator_clear"
  /\ \E matches \in pages :
        /\ ContainerLookup(matches) = 0
        /\ card_matches' = matches
        /\ container_locator' = 0
  /\ \E els \in IndicatorSamples :
        Log(IF check_for_no_results_with_config(els).detected
            THEN "no_results" ELSE "failed",
            <<Step("find_card", "unresolved"), CheckStep(els)>>)
  /\ UNCHANGED submit_steps

CardContainerUnresolved == CardContainerUnresolvedOn(CardPages)

\* find_elements with the selector that resolved at line 346
CardsOfResolvedSelector == card_matches[container_locator]

\* line 369: find_elements with product_card_selectors[0]
CardsOfFirstSelector == card_matches[1]

\* lines 369-379: the cards are listed, and an empty list leads to the third
\* check of the indicators
ListCards ==
  /\ scrapePc = "results_checked"
  /\ \E cards \in {CardsOfFirstSelector} :
        /\ page_cards' = cards
        /\ IF cards = <<>>
           THEN \E els \in IndicatorSamples :
                   /\ scrapePc' = IF check_for_no_results_with_config(els).detected
                                  THEN "no_results" ELSE "failed"
                   /\ steps' = steps \o <<Step("list_cards", "empty"), CheckStep(els)>>
           ELSE /\ scrapePc' = "enumerating"
                /\ steps' = Append(steps, Step("list_cards", "ok"))
  /\ UNCHANGED <<max_results_per_query, card_idx, scrape_results, pageVars, notScrapeVars>>

\* lines 382-508 for one card
ExtractCard ==
  /\ scrapePc = "enumerating"
  /\ card_idx < Len(page_cards)
  /\ ~CapReached(card_idx, max_results_per_query)
  /\ \E product_data \in {ExtractTitleAndUrl(page_cards[card_idx + 1])} :
        IF Retained(product_data)
        THEN /\ scrape_results' = Append(scrape_results, ProductData(card_idx + 1, product_data))
             /\ steps' = Append(steps, CardStep("kept", card_idx + 1))
        ELSE /\ scrape_results' = scrape_results
             /\ steps' = Append(steps, CardStep("dropped", card_idx + 1))
  /\ card_idx' = card_idx + 1
  /\ UNCHANGED <<max_results_per_query, page_cards, scrapePc, pageVars, notScrapeVars>>

\* a loop that waits for one more card after the last one
FinishEnumerationWaits ==
  /\ scrapePc = "enumerating"
  /\ card_idx >= Len(page_cards) \/ CapReached(card_idx, max_results_per_query)
  /\ UNCHANGED vars

\* lines 382-384 and 515: the cards are exhausted or the cap is reached
FinishEnumeration ==
  /\ scrapePc = "enumerating"
  /\ card_idx >= Len(page_cards) \/ CapReached(card_idx, max_results_per_query)
  /\ scrapePc' = "enumerated"
  /\ UNCHANGED <<max_results_per_query, page_cards, card_idx, scrape_results, steps,
                 pageVars, notScrapeVars>>

ScrapeNext ==
  \/ LoadPageOk
  \/ LoadPageFails
  \/ SearchInputOk
  \/ SearchInputUnresolved
  \/ SearchInputRaises
  \/ SubmitClicked
  \/ SubmitByEnterKey
  \/ SubmitFails
  \/ FirstNoResultsCheck
  \/ CardContainerResolved
  \/ CardContainerUnresolved
  \/ ListCards
  \/ ExtractCard
  \/ FinishEnumeration

ScrapeSpec == ScrapeInit /\ [][ScrapeNext]_vars

\* ========================================================================
\* Properties
\* ========================================================================
\* <<idx, result_index>> identifies the result_index value of a record
IndexKey(e) == <<e.idx, e.result_index>>
CountKey(s, key) == Cardinality({i \in DOMAIN s : IndexKey(s[i]) = key})

\* C1: the list returned by apply_inventory_aware_ranking holds exactly the
\* multiset of result_index values of its input: none lost, none duplicated.
C1_ResultIndexMultisetPreserved ==
  rankPc = "returned" =>
     /\ Len(reordered) = Len(evaluations)
     /\ \A i \in DOMAIN evaluations :
          CountKey(reordered, IndexKey(evaluations[i]))
             = CountKey(evaluations, IndexKey(evaluations[i]))

\* C2: a record whose relevance label is none of High, Medium, Low (or is
\* missing) is treated as Low: it is in the output, after every High and
\* Medium record.
C2_UnknownLabelCollapsesToLow ==
  rankPc = "returned" =>
     \A i \in DOMAIN evaluations :
        evaluations[i].relevance \notin {"High", "Medium", "Low"} =>
           \E j \in DOMAIN reordered :
              /\ reordered[j].pos = i
              /\ \A k \in DOMAIN reordered :
                   reordered[k].relevance \in {"High", "Medium"} => k < j

TierRank(e) ==
  CASE e.relevance = "High" -> 1
    [] e.relevance = "Medium" -> 2
    [] OTHER -> 3

ResultIndexOrder(s) == [i \in DOMAIN s |-> s[i].result_index]

ScenarioEntries == <<Entry(<<"0">>), Entry(<<"5", "0", "0">>), Entry(<<"2">>)>>
ScenarioInput ==
  /\ original_results = ScenarioEntries
  /\ Len(evaluations) = 3
  /\ \A i \in 1..3 : /\ evaluations[i].relevance = "High"
                     /\ evaluations[i].idx = "int"
                     /\ evaluations[i].result_index = i - 1

\* C3: the output is ordered by tier first (High, Medium, Low) and by parsed
\* quantity, non-increasing, within a tier; three High records on entries
\* "0", "500", "2" come out in result_index order 1, 2, 0.
C3_TierThenQuantityOrder ==
  rankPc = "returned" =>
     /\ \A i, j \in DOMAIN reordered :
          i < j =>
            /\ TierRank(reordered[i]) <= TierRank(reordered[j])
            /\ TierRank(reordered[i]) = TierRank(reordered[j]) =>
                 reordered[i].parsed_quantity >= reordered[j].parsed_quantity
     /\ ScenarioInput => ResultIndexOrder(reordered) = <<1, 2, 0>>

C3_Witness ==
  /\ rankPc = "returned"
  /\ ScenarioInput
  /\ ResultIndexOrder(reordered) = <<1, 2, 0>>

\* C4: within a tier, two records of equal parsed quantity keep the relative
\* order they had in the input.
C4_StableWithinTier ==
  rankPc = "returned" =>
     \A i, j \in DOMAIN reordered :
        /\ i < j
        /\ TierRank(reordered[i]) = TierRank(reordered[j])
        /\ reordered[i].parsed_quantity = reordered[j].parsed_quantity
        => reordered[i].pos < reordered[j].pos

\* a tie inside a tier, in a call that did move a record of that tier
C4_Witness ==
  /\ rankPc = "returned"
  /\ \E i, j, k \in DOMAIN reordered :
        /\ i < j
        /\ TierRank(reordered[i]) = TierRank(reordered[j])
        /\ TierRank(reordered[i]) = TierRank(reordered[k])
        /\ reordered[i].parsed_quantity = reordered[j].parsed_quantity
        /\ reordered[i].result_index # reordered[j].result_index
        /\ reordered[k].pos > reordered[i].pos
        /\ k < i

\* the value of the digits s[i..j] read as a decimal number
RECURSIVE Pow10(_)
Pow10(n) == IF n = 0 THEN 1 ELSE 10 * Pow10(n - 1)
RECURSIVE DecimalValue(_, _, _)
DecimalValue(s, i, j) ==
  IF i > j THEN 0 ELSE DigitVal(s[i]) * Pow10(j - i) + DecimalValue(s, i + 1, j)

\* s[i..j] is the first maximal run of digits of s
IsFirstRun(s, i, j) ==
  /\ 1 <= i /\ i <= j /\ j <= Len(s)
  /\ \A k \in 1..(i - 1) : s[k] \notin Digits
  /\ \A k \in i..j : s[k] \in Digits
  /\ j = Len(s) \/ s[j + 1] \notin Digits

StatusOf(n) ==
  IF n = 0 THEN "Out of Stock" ELSE IF n <= 4 THEN "Low Stock" ELSE "Available"

\* C9: a quantity string with a digit parses to the value n of its first
\* numeric run, with Out of Stock for 0, Low Stock for 1..4, Available from 5;
\* "" and "N/A" parse to (0, Unknown); the numeric part is never negative.
C9_ParsedQuantity ==
  parsed_quantity # NotCalled =>
     /\ parsed_quantity.numeric >= 0
     /\ \A i, j \in 1..Len(quantity_str) :
          IsFirstRun(quantity_str, i, j) =>
             /\ parsed_quantity.numeric = DecimalValue(quantity_str, i, j)
             /\ parsed_quantity.status = StatusOf(DecimalValue(quantity_str, i, j))
     /\ quantity_str \in {<<>>, NAText} => parsed_quantity = QtyResult(0, "Unknown")
     /\ quantity_str = <<"0">> => parsed_quantity = QtyResult(0, "Out of Stock")
     /\ quantity_str = <<"2">> => parsed_quantity = QtyResult(2, "Low Stock")
     /\ quantity_str = <<"5", "0", "0">> => parsed_quantity = QtyResult(500, "Available")

C9_Witness ==
  /\ quantity_str = <<"4", "-", "5">>
  /\ parsed_quantity = QtyResult(4, "Low Stock")

\* the number of maximal runs of non-whitespace characters of q
TokenCount(q) ==
  Cardinality({i \in 1..Len(q) :
                 q[i] \notin Whitespace /\ (i = 1 \/ q[i - 1] \in Whitespace)})

ExpectedSearchType(q) ==
  IF TokenCount(q) > 1 THEN "multiple_terms"
  ELSE IF \E i \in 1..Len(q) : q[i] \in Digits \cup {"-", "/"} THEN "part_number"
  ELSE "english_word"

\* C8: more than one whitespace-delimited token gives multiple_terms; else a
\* token with a digit, a hyphen or a slash gives part_number; else
\* english_word; the result is a function of the query string alone.
C8_Classification ==
  search_type # "" =>
     /\ search_type = ExpectedSearchType(query)
     /\ query = QueryGasket => search_type = "english_word"
     /\ query \in {QueryBK608, Query513188, Query12345} => search_type = "part_number"
     /\ query = QueryBrakePads => search_type = "multiple_terms"

C8_Witness ==
  /\ query = <<" ", "a", "/", "\t">>
  /\ search_type = "part_number"

AllAttemptsFailed ==
  \A i \in DOMAIN requests_sent : requests_sent[i].outcome \in {"non200", "transport"}

\* C6: with max_retries = N >= 1 and a service that fails every attempt
\* (non-200 or transport error), query_ollama sends exactly N requests, then
\* returns the failure marker carrying N, and never raises.
C6_ExactlyNAttemptsThenMarker ==
  (max_retries >= 1 /\ AllAttemptsFailed) =>
     /\ clientPc # "raised"
     /\ Len(requests_sent) <= max_retries
     /\ clientPc = "loop" <=> Len(requests_sent) < max_retries
     /\ clientPc = "returned" =>
          /\ Len(requests_sent) = max_retries
          /\ client_result = FailureMarker(max_retries)

C6_Witness ==
  /\ max_retries = 3
  /\ clientPc = "returned"
  /\ Len(requests_sent) = 3
  /\ requests_sent[1].outcome = "non200"
  /\ requests_sent[2].outcome = "transport"
  /\ requests_sent[3].outcome = "non200"
  /\ client_result = FailureMarker(3)

ResultIndexes(evals) == [i \in DOMAIN evals |-> IndexKey(evals[i])]

\* C5: after a successful evaluation the evaluations list has no more
\* records than there are entries, its result_index values are pairwise
\* distinct, and each is a position 0..len(entries)-1 of the entry list.
C5_IndexesUniqueAndValid ==
  evaluation.status = "success" =>
     /\ Len(evaluation.evaluations) <= Len(results)
     /\ \A i, j \in DOMAIN evaluation.evaluations :
          i # j => IndexKey(evaluation.evaluations[i]) # IndexKey(evaluation.evaluations[j])
     /\ \A i \in DOMAIN evaluation.evaluations :
          /\ evaluation.evaluations[i].kind = "dict"
          /\ evaluation.evaluations[i].idx = "int"
          /\ evaluation.evaluations[i].result_index \in 0..(Len(results) - 1)

\* C7: prose, then a JSON object with an "evaluations" array of n records
\* (trailing commas allowed), then prose, is parsed to that array: the
\* evaluation ends with status success and n records.
C7_ProseAroundJsonParsed ==
  \A n \in 0..MaxRecords :
     (evaluation # NotEvaluated /\ llm_response.body \in ShapedTextsByCount[n]) =>
        /\ evaluation.status = "success"
        /\ Len(evaluation.evaluations) = n

HasRecord(j) == \E k \in DOMAIN all_final_results : all_final_results[k].task = j

\* the processing of task i failed at some stage
TaskFailed(i) ==
  \/ raised_at = i
  \/ \E k \in DOMAIN all_final_results :
        all_final_results[k].task = i /\ all_final_results[k].status # "success"

\* C10: when the run is over, every task with a query that comes after a
\* task that failed (scraping, inference, malformed output, or an error
\* raised while reranking or summarizing) has its own result record.
C10_FailureDoesNotAbortBatch ==
  (runPc \in {"done", "aborted"} /\ driver = "closed") =>
     \A i, j \in DOMAIN tasks :
        (i < j /\ tasks[j] /\ TaskFailed(i)) => HasRecord(j)

\* the calls of one kind made so far
CallsOf(op) == {k \in DOMAIN calls : calls[k].op = op}

\* C11: the browser session is acquired once per run; once it is acquired it
\* is closed exactly once on every exit path (all tasks done, or an error
\* raised while a task is processed), and nothing is scraped or evaluated
\* after the close.
C11_SessionClosedExactlyOnce ==
  /\ Cardinality(CallsOf("setup_driver")) <= 1
  /\ runPc \notin {"idle", "setup"} => CallsOf("setup_driver") = {1}
  /\ Cardinality(CallsOf("quit")) <= 1
  /\ \A k \in CallsOf("quit") : k = Len(calls)
  /\ driver = "open" => CallsOf("quit") = {}
  /\ driver = "closed" <=> CallsOf("quit") # {}
  /\ (runPc \in {"done", "aborted"} /\ calls[1].detail = "ok") =>
        /\ driver = "closed"
        /\ Cardinality(CallsOf("quit")) = 1

\* a run of two tasks that raised in its second task and closed the session
C11_Witness ==
  /\ runPc = "aborted"
  /\ raised_at = 2
  /\ Len(all_final_results) = 1
  /\ driver = "closed"
  /\ Cardinality(CallsOf("quit")) = 1
  /\ calls[Len(calls)].op = "quit"

\* lines 329-342 hand back no payload for this response text: the pattern
\* finds no match, or json.loads rejects the matched text
HoldsNoParseablePayload(text) ==
  \/ JsonMatch(text) = <<0, 0>>
  \/ ~IsJson(StripTrailingCommas(SubSeq(text, JsonMatch(text)[1], JsonMatch(text)[2])))

\* the <<status, error>> pairs an evaluation reports after query_ollama
\* exhausted its attempts
TransientReports ==
  {<<e.status, e.error>> :
      e \in {evaluate_search_results_with_inventory(FailureMarker(n), <<>>, b) :
                n \in 0..MaxRetriesBound, b \in BOOLEAN}}

\* C12: an evaluation whose response arrived but holds no parseable payload
\* reports a status/error pair that no exhausted-retries evaluation reports.
C12_MalformedDistinctFromTransient ==
  (/\ evaluation # NotEvaluated
   /\ llm_response.kind = "response"
   /\ HoldsNoParseablePayload(llm_response.body)) =>
      <<evaluation.status, evaluation.error>> \notin TransientReports

\* prose without braces, an object whose "evaluations" array is empty, prose
EmptyPayloadTexts ==
  {pre \o EvaluationsObject(Tok("key_eval"), <<>>, comma, <<>>) \o post :
      pre \in {<<>>, <<Tok("prose")>>}, post \in ProseAfter, comma \in BOOLEAN}

ScrapeReasons(t) ==
  {calls[k].detail : k \in {c \in CallsOf("scrape") : calls[c].task = t}}

\* what the caller keeps of a result record besides the task it belongs to
RecordOutcome(r) == <<r.status, r.scraped_results, r.evaluation>>

\* C14: the result record of a query that ended on the no-results indicator
\* differs from the record of a query that ended on a structural failure.
C14_NoResultsDistinctFromFailure ==
  \A k, l \in DOMAIN all_final_results :
     (/\ "no_results" \in ScrapeReasons(all_final_results[k].task)
      /\ "failed" \in ScrapeReasons(all_final_results[l].task)) =>
        RecordOutcome(all_final_results[k]) # RecordOutcome(all_final_results[l])

\* the tasks of the positions in calls, in call order
RECURSIVE TasksOfCalls(_, _)
TasksOfCalls(op, k) ==
  IF k > Len(calls) THEN <<>>
  ELSE IF calls[k].op = op THEN <<calls[k].task>> \o TasksOfCalls(op, k + 1)
  ELSE TasksOfCalls(op, k + 1)

\* the tasks that have a query, in task order
RECURSIVE TasksWithQuery(_)
TasksWithQuery(i) ==
  IF i > Len(tasks) THEN <<>>
  ELSE IF tasks[i] THEN <<i>> \o TasksWithQuery(i + 1)
  ELSE TasksWithQuery(i + 1)

\* C15: when a run that acquired the session is over, the driver was set up
\* once, the scraper ran once per task with a query, in task order, the
\* evaluator ran once for each task whose scrape returned entries and for no
\* other, and each task with a query has exactly one result record.
C15_OncePerTaskInOrder ==
  (runPc \in {"done", "aborted"} /\ driver = "closed") =>
     /\ Cardinality(CallsOf("setup_driver")) = 1
     /\ TasksOfCalls("scrape", 1) = TasksWithQuery(1)
     /\ \A i \in DOMAIN tasks :
           Cardinality({k \in CallsOf("evaluate") : calls[k].task = i})
              = IF tasks[i] /\ "enumerated" \in ScrapeReasons(i) THEN 1 ELSE 0
     /\ \A i \in DOMAIN tasks :
           Cardinality({k \in DOMAIN all_final_results : all_final_results[k].task = i})
              = IF tasks[i] THEN 1 ELSE 0

\* the steps of the executor proper, without the no-results checks
MainStep(e) ==
  e.step \in {"load_page", "search_input", "submit", "find_card", "list_cards", "extract"}

StepRank(e) ==
  CASE e.step = "load_page" -> 1
    [] e.step = "search_input" -> 2
    [] e.step = "submit" -> 3
    [] e.step = "find_card" -> 4
    [] e.step = "list_cards" -> 5
    [] e.step = "extract" -> 6
    [] OTHER -> 0

StepSucceeded(e) == e.res \in {"ok", "clicked", "enter_key", "kept", "dropped"}

MainSteps == SelectSeq(steps, MainStep)

C17_NoResultsCheckedTwice ==
  /\ \A k \in DOMAIN steps :
        steps[k].step = "find_card" =>
           k > 1 /\ steps[k - 1] = Step("check_no_results", "clear")
  /\ \A k \in DOMAIN steps :
        steps[k] = Step("check_no_results", "detected") =>
           /\ k = Len(steps)
           /\ scrapePc = "no_results"
           /\ scrape_results = <<>>
           /\ \A j \in DOMAIN steps : steps[j].step # "extract"
  /\ \A k \in DOMAIN steps :
        steps[k] = Step("find_card", "unresolved") =>
           /\ Len(steps) = k + 1
           /\ steps[k + 1].step = "check_no_results"
           /\ scrapePc \in {"no_results", "failed"}
           /\ scrape_results = <<>>

\* the banner shows up between the two checks
C17_Witness ==
  /\ Len(steps) = 6
  /\ steps[4] = Step("check_no_results", "clear")
  /\ steps[5] = Step("find_card", "unresolved")
  /\ steps[6] = Step("check_no_results", "detected")
  /\ scrapePc = "no_results"
  /\ scrape_results = <<>>

\* C18: check_for_no_results_with_config returns true exactly when some
\* locator matches a visible element whose lowercased text contains one of
\* the zero-results phrases, whatever the other elements hold, and it never
\* raises.
C18_IndependentSubstringChecks ==
  checkPc = "returned" =>
     /\ ~check_result.raised
     /\ check_result.detected <=>
          \E i \in DOMAIN indicator_elements :
             /\ indicator_elements[i].found = "visible"
             /\ \E p \in NoResultsPhrases : Contains(Lower(indicator_elements[i].text), p)

\* C19: the returned list has at most max_results_per_query entries, each
\* from a card of the page, no card twice, in page order.
C19_CappedDistinctInOrder ==
  scrapePc # "idle" =>
     /\ Len(scrape_results) <= max_results_per_query
     /\ \A k \in DOMAIN scrape_results :
           /\ scrape_results[k].card \in DOMAIN page_cards
           /\ scrape_results[k] =
                ProductData(scrape_results[k].card,
                            ExtractTitleAndUrl(page_cards[scrape_results[k].card]))
     /\ \A k, l \in DOMAIN scrape_results :
           k < l => scrape_results[k].card < scrape_results[l].card

\* three cards on the page, a cap of two: the first two are returned
C19_Witness ==
  /\ scrapePc = "enumerated"
  /\ Len(page_cards) = 3
  /\ max_results_per_query = 2
  /\ Len(scrape_results) = 2
  /\ scrape_results[1].card = 1
  /\ scrape_results[2].card = 2

HasDigit(s) == \E i \in 1..Len(s) : s[i] \in Digits

HasTerm(s, terms) == \E term \in terms : Contains(Lower(s), term)

\* C28: a quantity string without a digit is classified by keyword, without
\* regard to letter case, in a fixed order: "out of stock" or "unavailable"
\* gives (0, Out of Stock); otherwise "low stock" or "limited" gives
\* (1, Low Stock); otherwise "in stock" or "available" gives (999, Available);
\* otherwise (0, Unknown). "unavailable" is never classified as Available.
C28_KeywordOrder ==
  (parsed_quantity # NotCalled /\ ~HasDigit(quantity_str)
     /\ quantity_str \notin {<<>>, NAText}) =>
     /\ HasTerm(quantity_str, {KwOutOfStock, KwUnavailable})
          => parsed_quantity = QtyResult(0, "Out of Stock")
     /\ (~HasTerm(quantity_str, {KwOutOfStock, KwUnavailable})
           /\ HasTerm(quantity_str, {KwLowStock, KwLimited}))
          => parsed_quantity = QtyResult(1, "Low Stock")
     /\ (~HasTerm(quantity_str, {KwOutOfStock, KwUnavailable, KwLowStock, KwLimited})
           /\ HasTerm(quantity_str, {KwInStock, KwAvailable}))
          => parsed_quantity = QtyResult(999, "Available")
     /\ ~HasTerm(quantity_str, {KwOutOfStock, KwUnavailable, KwLowStock, KwLimited,
                                KwInStock, KwAvailable})
          => parsed_quantity = QtyResult(0, "Unknown")
     /\ quantity_str = TextUnavailable => parsed_quantity.status # "Available"
     /\ quantity_str = TextLimitedInStock => parsed_quantity = QtyResult(1, "Low Stock")

C28_Witness ==
  /\ quantity_str = TextLowStockUnavailable
  /\ parsed_quantity = QtyResult(0, "Out of Stock")

\* ------------------------------------------------------------------------
\* Frame of apply_inventory_aware_ranking
\* ------------------------------------------------------------------------
AddedFields == {"parsed_quantity", "inventory_status_parsed"}

\* the record rec is the record before with nothing but the two fields added
OnlyAnnotated(rec, before) ==
  /\ DOMAIN rec = DOMAIN before \cup AddedFields
  /\ \A f \in DOMAIN before : rec[f] = before[f]

\* the quantity of the entry the record refers to, parsed: result_index counts
\* from 0, a record without the key refers to entry 0, a negative value counts
\* from the end of the list; (0, Unknown) when result_index is past the end
ExpectedAnnotation(before, entries) ==
  LET ri == IF before.idx = "missing" THEN 0 ELSE before.result_index
  IN  IF ri >= Len(entries) THEN QtyResult(0, "Unknown")
      ELSE IF ri >= 0 THEN parse_inventory_quantity(entries[ri + 1].quantity)
      ELSE parse_inventory_quantity(entries[Len(entries) + ri + 1].quantity)

AnnotatedFrom(rec, before, entries) ==
  /\ OnlyAnnotated(rec, before)
  /\ QtyResult(rec.parsed_quantity, rec.inventory_status_parsed)
       = ExpectedAnnotation(before, entries)

\* C30: the reranker changes no model-supplied field of any record and no
\* entry: every record of the output is a record of the input with the same
\* result_index and relevance, the entry list is unchanged, and the only
\* fields added are parsed_quantity and inventory_status_parsed, parsed from
\* the quantity of the entry at result_index (0 and Unknown past the end).
C30_OnlyAnnotates ==
  [][ApplyRanking =>
       /\ original_results' = original_results
       /\ Len(evaluations') = Len(evaluations)
       /\ \A i \in DOMAIN evaluations :
            \/ evaluations'[i] = evaluations[i]
            \/ AnnotatedFrom(evaluations'[i], evaluations[i], original_results)
       /\ \A k \in DOMAIN reordered' :
            /\ reordered'[k].pos \in DOMAIN evaluations
            /\ AnnotatedFrom(reordered'[k], evaluations[reordered'[k].pos],
                             original_results)]_vars

C30_Witness ==
  /\ rankPc = "returned"
  /\ Len(original_results) = 2
  /\ Len(reordered) = 3
  /\ \E k \in 1..3 : reordered[k].result_index = 2 /\ reordered[k].parsed_quantity = 0
                       /\ reordered[k].inventory_status_parsed = "Unknown"
  /\ \E k \in 1..3 : reordered[k].relevance = Missing /\ reordered[k].parsed_quantity > 0
  /\ \E k \in 1..3 : reordered[k].idx = "missing"

\* ------------------------------------------------------------------------
\* Properties of parse_enhanced_llm_response
\* ------------------------------------------------------------------------
\* the pattern needs an opening brace, the word "evaluations" after it and a
\* closing brace after that
NoObjectWithKey(text) ==
  ~\E i, j, k \in DOMAIN text :
      /\ i < j /\ j < k
      /\ text[i].t = "{" /\ text[j].t \in {"key_eval", "str_eval"} /\ text[k].t = "}"

\* texts the pattern matches in full and json.loads rejects: a key without a
\* value, text after the object, an unclosed array, a stray bracket
InvalidJsonTexts ==
  {<<Tok("{"), Tok("key_eval"), Tok("}")>>,
   <<Tok("{"), Tok("}"), Tok("key_eval"), Tok("}")>>,
   <<Tok("{"), Tok("key_eval"), Tok("["), Tok("}")>>,
   <<Tok("{"), Tok("key_eval"), Tok("]"), Tok("}")>>}

SkuFull == Sku("found", "value", "parts", "text")
PricePlain == Price("found", "other", "no_parts", "text")
QuantityPlain == Quantity("found", "text")
NoSku == Sku("none", "absent", "absent", "empty")
NoPrice == Price("none", "other", "no_parts", "empty")
NoQuantity == Quantity("none", "empty")

\* a regular card, then cards that differ from it in one field, then cards
\* with several fields missing or failing
FieldCardKinds ==
  {FieldCard("text", TRUE, "href", SkuFull, PricePlain, QuantityPlain)}
    \cup {FieldCard(c.title_element, c.ancestor_anchor, c.link_element,
                    SkuFull, PricePlain, QuantityPlain) : c \in CardKinds}
    \cup {FieldCard("error", FALSE, "href", SkuFull, PricePlain, QuantityPlain)}
    \cup {FieldCard("text", TRUE, "href", sku, PricePlain, QuantityPlain) :
            sku \in {NoSku,
                     Sku("error", "absent", "absent", "empty"),
                     Sku("found", "empty", "parts", "text"),
                     Sku("found", "no_value", "absent", "text"),
                     Sku("found", "absent", "parts", "text"),
                     Sku("found", "absent", "no_parts", "text"),
                     Sku("found", "absent", "absent", "prefixed"),
                     Sku("found", "absent", "absent", "empty")}}
    \cup {FieldCard("text", TRUE, "href", SkuFull, price, QuantityPlain) :
            price \in {NoPrice,
                       Price("error", "other", "no_parts", "empty"),
                       Price("found", "price-wrapper", "parts", "text"),
                       Price("found", "price-wrapper", "no_parts", "text"),
                       Price("found", "none", "no_parts", "text")}}
    \cup {FieldCard("text", TRUE, "href", SkuFull, PricePlain, quantity) :
            quantity \in {NoQuantity, Quantity("error", "empty"), Quantity("found", "empty")}}
    \cup {FieldCard("none", FALSE, "none", NoSku, NoPrice, NoQuantity),
          FieldCard("text", TRUE, "href",
                    Sku("error", "absent", "absent", "empty"),
                    Price("error", "other", "no_parts", "empty"),
                    Quantity("error", "empty"))}

FieldCardLists == SeqsUpTo(FieldCardKinds, MaxFieldCards)

ExtractInit ==
  /\ product_cards \in FieldCardLists
  /\ card_cap \in 1..MaxCap
  /\ loop_i = 0
  /\ product_entries = <<>>
  /\ card_log = <<>>
  /\ extractPc = "loop"
  /\ OnlyExtract

\* lines 382-508 for a card whose extraction runs to line 504
ExtractFields ==
  /\ extractPc = "loop"
  /\ loop_i < Len(product_cards)
  /\ ~CapReached(loop_i, card_cap)
  /\ ~TitleBlockRaises(product_cards[loop_i + 1])
  /\ \E product_data \in {FieldsOf(loop_i + 1, product_cards[loop_i + 1])} :
        IF Retained(product_data)
        THEN /\ product_entries' = Append(product_entries, product_data)
             /\ card_log' = Append(card_log, CardOutcome(loop_i + 1, "kept"))
        ELSE /\ product_entries' = product_entries
             /\ card_log' = Append(card_log, CardOutcome(loop_i + 1, "dropped"))
  /\ loop_i' = loop_i + 1
  /\ UNCHANGED <<product_cards, card_cap, extractPc, notExtractVars>>

\* lines 395-436, 512-515: the title block raises, the handler of the whole
\* function prints the error and the entries gathered so far are returned
ExtractionAborted ==
  /\ extractPc = "loop"
  /\ loop_i < Len(product_cards)
  /\ ~CapReached(loop_i, card_cap)
  /\ TitleBlockRaises(product_cards[loop_i + 1])
  /\ card_log' = Append(card_log, CardOutcome(loop_i + 1, "aborted"))
  /\ extractPc' = "returned"
  /\ UNCHANGED <<product_cards, card_cap, loop_i, product_entries, notExtractVars>>

\* lines 382-384 and 515: the cards are exhausted or the cap is reached
LoopEnds ==
  /\ extractPc = "loop"
  /\ loop_i >= Len(product_cards) \/ CapReached(loop_i, card_cap)
  /\ extractPc' = "returned"
  /\ UNCHANGED <<product_cards, card_cap, loop_i, product_entries, card_log, notExtractVars>>

ExtractNext ==
  \/ ExtractFields
  \/ ExtractionAborted
  \/ LoopEnds

ExtractSpec == ExtractInit /\ [][ExtractNext]_vars

\* ------------------------------------------------------------------------
\* Specification of the bounded waits: one call of scrape_site_with_config or
\* one call of query_ollama, each step of which comes to an end (an element
\* wait finds its element or expires at its timeout, a request is answered or
\* times out), so that the call is never suspended for ever at a step
\* ------------------------------------------------------------------------
\* pages of one or two card selectors with no, one or two cards
WaitPages ==
  {<<first>> \o later :
     first \in {<<>>, <<Card("text", TRUE, "href")>>,
                <<Card("none", FALSE, "none"), Card("text", TRUE, "href")>>},
     later \in {<<>>, <<<<>>>>, <<<<Card("text", TRUE, "href")>>>>}}

WaitInit == ScrapeInit \/ ClientInit

WaitCardContainerResolved == CardContainerResolvedOn(WaitPages)

WaitCardContainerUnresolved == CardContainerUnresolvedOn(WaitPages)

WaitScrapeNext ==
  \/ LoadPageOk
  \/ LoadPageFails
  \/ SearchInputOk
  \/ SearchInputUnresolved
  \/ SearchInputRaises
  \/ SubmitClicked
  \/ SubmitByEnterKey
  \/ SubmitFails
  \/ FirstNoResultsCheck
  \/ WaitCardContainerResolved
  \/ WaitCardContainerUnresolved
  \/ ListCards
  \/ ExtractCard
  \/ FinishEnumeration

WaitNext == WaitScrapeNext \/ ClientNext

WaitSpec ==
  /\ WaitInit
  /\ [][WaitNext]_vars
  /\ WF_vars(WaitNext)

\* ------------------------------------------------------------------------
\* Properties of the retry loop of query_ollama
\* ------------------------------------------------------------------------
\* the attempts that did not end the call with a body
FailedAttempts == {i \in DOMAIN requests_sent : requests_sent[i].outcome # "200"}

Resolves(i) ==
  IF wait_for_interactable THEN selectors.items[i].clickable = "found"
  ELSE selectors.items[i].present = "found"

\* C23: the search for an element tries each locator of its list at most
\* once, in list order, stops at the first locator that resolves and returns
\* that element; it returns None only after every locator failed; an error
\* other than a timeout also moves on to the next locator.
C23_FirstResolvingLocator ==
  findPc = "returned" =>
     /\ \A k \in DOMAIN find_result.tried : find_result.tried[k] = k
     /\ Len(find_result.tried) <= Len(selectors.items)
     /\ find_result.element # 0 =>
          /\ find_result.element = Len(find_result.tried)
          /\ Resolves(find_result.element)
          /\ \A j \in 1..(find_result.element - 1) : ~Resolves(j)
     /\ find_result.element = 0 =>
          /\ Len(find_result.tried) = Len(selectors.items)
          /\ \A j \in DOMAIN selectors.items : ~Resolves(j)

C23_Witness ==
  /\ findPc = "returned"
  /\ selectors = SelectorArg("list", <<Selector("error", "error"), Selector("found", "timeout"),
                                       Selector("found", "found")>>)
  /\ wait_for_interactable
  /\ find_result = FindResult(3, <<1, 2, 3>>)

\* ------------------------------------------------------------------------
\* Properties of the submit block and of the card listing
\* ------------------------------------------------------------------------
\* the steps of the submit block with the given name
SubmitStepsNamed(name) == {k \in DOMAIN submit_steps : submit_steps[k].step = name}

\* C24: when no submit locator resolves, the executor sends the Enter key to
\* the search input without a click; when the Enter key is accepted the call
\* goes on to the results check, when it fails the call ends Failed with an
\* empty list and no later step. The submit control is clicked at most once
\* per query.
C24_EnterKeyFallback ==
  /\ Cardinality(SubmitStepsNamed("click")) <= 1
  /\ Cardinality(SubmitStepsNamed("find_button")) <= 1
  /\ (submit_steps # <<>> /\ submit_steps[1] = Step("find_button", "unresolved")) =>
       /\ Len(submit_steps) = 2
       /\ submit_steps[2].step = "enter_key"
       /\ submit_steps[2].res = "ok" =>
            /\ steps[3] = Step("submit", "enter_key")
            /\ scrapePc # "input_entered"
            /\ Len(steps) = 3 => scrapePc = "submitted"
            /\ Len(steps) > 3 => steps[4].step = "check_no_results"
       /\ submit_steps[2].res = "failed" =>
            /\ scrapePc = "failed"
            /\ scrape_results = <<>>
            /\ Len(steps) = 3
            /\ steps[3] = Step("submit", "failed")

C24_Witness ==
  /\ submit_steps = <<Step("find_button", "unresolved"), Step("enter_key", "ok")>>
  /\ scrapePc = "enumerated"
  /\ steps[3] = Step("submit", "enter_key")
  /\ steps[4] = Step("check_no_results", "clear")
  /\ scrape_results # <<>>

\* C29: the cards are listed with the first product card selector only: when
\* the wait for the cards resolved with a later selector and the first one
\* matches nothing, the call returns an empty list although the page holds
\* result cards.
C29_FirstCardSelectorOnly ==
  /\ \A k \in DOMAIN steps :
       steps[k].step = "list_cards" => page_cards = card_matches[1]
  /\ (container_locator > 1 /\ card_matches[1] = <<>>) =>
       /\ card_matches[container_locator] # <<>>
       /\ scrape_results = <<>>
       /\ scrapePc \in {"results_checked", "no_results", "failed"}
       /\ \A k \in DOMAIN steps : steps[k].step # "extract"
       /\ scrapePc # "results_checked" =>
            /\ steps[Len(steps) - 1] = Step("list_cards", "empty")
            /\ steps[Len(steps)].step = "check_no_results"

C29_Witness ==
  /\ container_locator = 2
  /\ card_matches = <<<<>>, <<Card("text", TRUE, "href")>>>>
  /\ scrapePc = "failed"
  /\ scrape_results = <<>>
  /\ steps[Len(steps) - 1] = Step("list_cards", "empty")

CardsToVisit == 1..Min(Len(product_cards), card_cap)

\* C21: a failure of any kind in the extraction of one field of a card
\* (title/url, identifier, price, quantity) leaves that field at "N/A" and
\* aborts neither the other fields of the card nor the enumeration of the
\* remaining cards: when the call returns, every card up to the cap was
\* extracted to the end, and an entry has "N/A" in each field whose lookup
\* failed and the extracted value in each field whose lookup succeeded.
C21_FieldFailureContained ==
  extractPc = "returned" =>
     /\ \A k \in CardsToVisit :
          \E j \in DOMAIN card_log :
             card_log[j].card = k /\ card_log[j].outcome \in {"kept", "dropped"}
     /\ \A e \in DOMAIN product_entries :
          LET card == product_cards[product_entries[e].card]
          IN  /\ card.sku.found = "error" => product_entries[e].part_number = "N/A"
              /\ card.price.found = "error" => product_entries[e].price = "N/A"
              /\ card.quantity.found = "error" => product_entries[e].quantity = "N/A"
              /\ card.sku = SkuFull => product_entries[e].part_number = "hidden value"
              /\ card.price = PricePlain => product_entries[e].price = "price text"
              /\ card.quantity = QuantityPlain => product_entries[e].quantity = "qty text"

\* the value of the first method of a chain that yields a non-empty value,
\* "N/A" when none does
RECURSIVE FirstNonEmpty(_)
FirstNonEmpty(values) ==
  IF values = <<>> THEN "N/A"
  ELSE IF Head(values) \notin {"", "None"} THEN Head(values)
  ELSE FirstNonEmpty(Tail(values))

\* what each title method yields for a card: the text of the title element,
\* the text of the product link
TitleMethods(card) ==
  <<IF card.title_element = "text" THEN "title text" ELSE "",
    IF card.link_element # "none" THEN "link text" ELSE "">>

\* what each identifier method yields: the hidden input, the vendor spans,
\* the text of the element (without its label)
SkuMethods(sku) ==
  <<CASE sku.hidden = "value" -> "hidden value" [] OTHER -> "",
    IF sku.vendor = "parts" THEN "span text" ELSE "",
    IF sku.text \in {"text", "prefixed"} THEN "sku text" ELSE "">>

\* C22: for each field of a card the value of the first method, in the fixed
\* order of the chain, that yields a non-empty value is used: a title element
\* with empty text or a hidden identifier input with an empty value is passed
\* over in favour of the next method.
C22_FirstNonEmptyMethodWins ==
  \A e \in DOMAIN product_entries :
     LET card == product_cards[product_entries[e].card]
     IN  /\ FirstNonEmpty(TitleMethods(card)) # "N/A"
              => product_entries[e].title = FirstNonEmpty(TitleMethods(card))
         /\ (card.sku.found = "found" /\ FirstNonEmpty(SkuMethods(card.sku)) # "N/A")
              => product_entries[e].part_number = FirstNonEmpty(SkuMethods(card.sku))

====
